---------------------------- MODULE Spec2Model ----------------------------
(***************************************************************************)
(* A model of proto2fetch: the schema parser (src/generator/parser.ts),    *)
(* the type generator (src/generator/type-generator.ts) and the client     *)
(* generator (src/generator/client-generator.ts).                          *)
(*                                                                         *)
(* Text is modelled as a sequence of one-character strings, so that the    *)
(* string operations of the code (regex matches, replace, slice) are       *)
(* computed character by character.  Emitted source text is modelled as a  *)
(* sequence of statements, one record per emitted line group.              *)
(***************************************************************************)
EXTENDS Integers, Sequences, FiniteSets, TLC

VARIABLES
    pc,            \* position of the component under analysis
    method,        \* client generator: the ProtoMethod being emitted
    body,          \* client generator: the emitted method body
    pmethod,       \* parser: the protobuf.Method whose HTTP binding is resolved
    httpOptions,   \* parser: the result of extractHttpOptions
    protoFiles,    \* parser: the files found by findProtoFiles, in order
    fileIdx,       \* parser: index of the next file of the for loop
    parsedFiles,   \* parser: the ProtoFile entries pushed so far
    schema,        \* parser: the ParsedSchema returned by parseFromDirectory
    typeOptions,   \* type generator: its TypeMappingOptions
    mapInput,      \* type generator: the (protoType, repeated) being mapped
    tsType,        \* type generator: the result of the type mapper
    messages,      \* type generator: allMessages, the flattened message list
    visited,       \* sortMessagesByDependency: names already placed
    visiting,      \* sortMessagesByDependency: names on the current DFS path
    result,        \* sortMessagesByDependency: the sorted messages so far
    stack,         \* sortMessagesByDependency: the active visit calls
    loopIdx,       \* sortMessagesByDependency: index of the final for loop
    visitCalls,    \* sortMessagesByDependency: number of visit calls made
    output,        \* type generator: the declarations emitted by generateTypes
    run,           \* emitters: the number of the run on the same schema and options
    firstOutput,   \* emitters: the text emitted by the first run
    nameInput,     \* type generator: the field name given to toCamelCase
    camelName,     \* type generator: the result of toCamelCase
    builders,      \* type generator: the builder classes emitted
    helpers,       \* client generator: the helper factories emitted
    sortBuilder,   \* generated code: the class of a sort builder instance
    sorts,         \* generated code: the sorts field of a sort builder instance
    calls,         \* generated code: the by<Field> calls made on the instance
    built,         \* generated code: the value returned by build()
    searchInput,   \* runtime client: the object given to objectToSearchParams
    searchParams,  \* runtime client: the URLSearchParams entries, in order
    auth,          \* JWTAuth: the fields and the closure variable of an instance
    now,           \* JWTAuth: Math.floor(Date.now() / 1000)
    authCalls,     \* JWTAuth: the getAuthHeaders calls, each with its position
    genOptions,    \* orchestrator: the GeneratorOptions of the constructor
    written,       \* orchestrator: the files written to the output directory
    failedAt,      \* orchestrator: the step of generate() that raised, if any
    retry,         \* RetryHandler: the fields, and the locals of retry()
    retryLog       \* RetryHandler: the calls of fn and of onRetry, in order

Idle == "idle"

clientVars == <<method, body>>
httpVars == <<pmethod, httpOptions>>
parserVars == <<protoFiles, fileIdx, parsedFiles, schema>>

mapVars == <<mapInput, tsType>>
sortVars == <<messages, visited, visiting, result, stack, loopIdx, visitCalls, output>>
typeVars == <<typeOptions, mapVars, sortVars>>

rerunVars == <<run, firstOutput>>
caseVars == <<nameInput, camelName>>
builderVars == <<builders, helpers>>
instanceVars == <<sortBuilder, sorts, calls, built>>
searchVars == <<searchInput, searchParams>>
authVars == <<auth, now, authCalls>>
genVars == <<genOptions, written, failedAt>>
retryVars == <<retry, retryLog>>
lateVars == <<authVars, genVars, retryVars>>
restVars == <<rerunVars, caseVars, builderVars, instanceVars, searchVars, lateVars>>

vars == <<pc, clientVars, httpVars, parserVars, typeVars, restVars>>

\* the variables of the type generator while another component runs
TypesIdle ==
    /\ typeOptions = Idle /\ mapInput = Idle /\ tsType = Idle
    /\ messages = Idle /\ visited = Idle /\ visiting = Idle /\ result = Idle
    /\ stack = Idle /\ loopIdx = Idle /\ visitCalls = Idle /\ output = Idle

RerunIdle == run = Idle /\ firstOutput = Idle

CaseIdle == nameInput = Idle /\ camelName = Idle

BuilderIdle == builders = Idle /\ helpers = Idle

InstanceIdle == sortBuilder = Idle /\ sorts = Idle /\ calls = Idle /\ built = Idle

SearchIdle == searchInput = Idle /\ searchParams = Idle

AuthIdle == auth = Idle /\ now = Idle /\ authCalls = Idle

GenIdle == genOptions = Idle /\ written = Idle /\ failedAt = Idle

RetryIdle == retry = Idle /\ retryLog = Idle

LateIdle == AuthIdle /\ GenIdle /\ RetryIdle

\* the variables of the components added to the model while another runs
RestIdle ==
    RerunIdle /\ CaseIdle /\ BuilderIdle /\ InstanceIdle /\ SearchIdle /\ LateIdle

Range(s) == {s[i] : i \in 1..Len(s)}

\* all sequences over S of length at most n
SeqUpTo(S, n) == UNION {[1..k -> S] : k \in 0..n}

RECURSIVE Flatten(_)
Flatten(ss) == IF ss = <<>> THEN <<>> ELSE Head(ss) \o Flatten(Tail(ss))

(***************************************************************************)
(* JavaScript string built-ins used by the generators                      *)
(***************************************************************************)
LowerAZ == <<"a","b","c","d","e","f","g","h","i","j","k","l","m",
             "n","o","p","q","r","s","t","u","v","w","x","y","z">>
UpperAZ == <<"A","B","C","D","E","F","G","H","I","J","K","L","M",
             "N","O","P","Q","R","S","T","U","V","W","X","Y","Z">>

\* the character class [a-z]
isLowerAZ(c) == \E i \in 1..Len(LowerAZ) : LowerAZ[i] = c

isUpperAZ(c) == \E i \in 1..Len(UpperAZ) : UpperAZ[i] = c

\* String.prototype.toUpperCase on one character
toUpperCase(c) ==
    IF isLowerAZ(c)
    THEN UpperAZ[CHOOSE i \in 1..Len(LowerAZ) : LowerAZ[i] = c]
    ELSE c

\* String.prototype.toLowerCase on one character
toLowerCase(c) ==
    IF isUpperAZ(c)
    THEN LowerAZ[CHOOSE i \in 1..Len(UpperAZ) : UpperAZ[i] = c]
    ELSE c

\* String.prototype.indexOf, 1-based, 0 when pat does not occur
indexOf(s, pat) ==
    LET hits == {i \in 1..(Len(s) - Len(pat) + 1) :
                    SubSeq(s, i, i + Len(pat) - 1) = pat}
    IN IF hits = {} THEN 0
       ELSE CHOOSE i \in hits : \A j \in hits : i <= j

\* String.prototype.replace(pattern: string, replacement): the first
\* occurrence only.  The replacements used here hold no $-pattern.
replace(s, pat, rep) ==
    LET i == indexOf(s, pat)
    IN IF i = 0 THEN s
       ELSE SubSeq(s, 1, i - 1) \o rep \o SubSeq(s, i + Len(pat), Len(s))

(***************************************************************************)
(* APIClientGenerator (client-generator.ts)                                *)
(***************************************************************************)

\* path.match(/\{([^}]+)\}/g) scanning from position i: a match starts at a
\* "{", takes at least one character that is not "}" and ends at the first "}"
RECURSIVE matchPlaceholders(_, _)
matchPlaceholders(path, i) ==
    IF i > Len(path) THEN <<>>
    ELSE IF path[i] = "{" /\ \E j \in (i+1)..Len(path) : path[j] = "}"
         THEN LET j == CHOOSE j \in (i+1)..Len(path) :
                          /\ path[j] = "}"
                          /\ \A k \in (i+1)..(j-1) : path[k] # "}"
              IN IF j >= i + 2
                 THEN <<SubSeq(path, i, j)>> \o matchPlaceholders(path, j + 1)
                 ELSE matchPlaceholders(path, i + 1)
         ELSE matchPlaceholders(path, i + 1)

\* a non-global match: only the first placeholder is found
extractPathParams_firstOnly(path) ==
    LET matches == matchPlaceholders(path, 1)
    IN IF matches = <<>> THEN <<>>
       ELSE <<SubSeq(matches[1], 2, Len(matches[1]) - 1)>>

extractPathParams(path) ==
    LET matches == matchPlaceholders(path, 1)
    IN [k \in 1..Len(matches) |-> SubSeq(matches[k], 2, Len(matches[k]) - 1)]

\* str.replace(/_([a-z])/g, (_, letter) => letter.toUpperCase())
RECURSIVE replaceUnderscoreLower(_)
replaceUnderscoreLower(s) ==
    IF s = <<>> THEN <<>>
    ELSE IF s[1] = "_" /\ Len(s) >= 2 /\ isLowerAZ(s[2])
         THEN <<toUpperCase(s[2])>> \o replaceUnderscoreLower(SubSeq(s, 3, Len(s)))
         ELSE <<s[1]>> \o replaceUnderscoreLower(Tail(s))

APIClientGenerator_toCamelCase(str) ==
    IF str = <<>> THEN <<>>
    ELSE <<toLowerCase(str[1])>> \o replaceUnderscoreLower(Tail(str))

\* the text `${request.<camelParam>}` put in place of a placeholder
requestProperty(camelParam) ==
    <<"$", "{", "r", "e", "q", "u", "e", "s", "t", ".">> \o camelParam \o <<"}">>

\* the loop of generateMethodBody over pathParams, from the k-th on
RECURSIVE substitutePathParams(_, _, _)
substitutePathParams(path, pathParams, k) ==
    IF k > Len(pathParams) THEN path
    ELSE LET param == pathParams[k]
             camelParam == APIClientGenerator_toCamelCase(param)
         IN substitutePathParams(
                replace(path, <<"{">> \o param \o <<"}">>, requestProperty(camelParam)),
                pathParams, k + 1)

\* "Prepare path with parameter substitution": the `const path = ...` line
preparePath(m, pathParams) ==
    IF Len(pathParams) > 0
    THEN [stmt |-> "const path", quote |-> "backtick",
          text |-> substitutePathParams(m.httpPath, pathParams, 1)]
    ELSE [stmt |-> "const path", quote |-> "single", text |-> m.httpPath]

\* the `return this.client.request<...>(verb, path, data, options)` line
requestCall(m, data, options) ==
    [stmt |-> "return this.client.request", verb |-> m.httpMethod,
     path |-> "path", data |-> data, options |-> options]

\* a GET request that also passes the request object as the body
prepareRequestData_bodyOnGet(m, pathParams) ==
    IF m.httpMethod = "GET"
    THEN IF m.inputType # "Empty"
         THEN << [stmt |-> "const searchParams",
                  value |-> "this.client.objectToSearchParams", arg |-> "request"],
                 requestCall(m, "request", <<"searchParams", "...options">>) >>
         ELSE << requestCall(m, "undefined", <<"options">>) >>
    ELSE IF Len(pathParams) > 0
         THEN << [stmt |-> "const destructure",
                  names |-> [k \in 1..Len(pathParams) |->
                                APIClientGenerator_toCamelCase(pathParams[k])],
                  rest |-> "body", from |-> "request"],
                 requestCall(m, "body", <<"options">>) >>
         ELSE << requestCall(m, "request", <<"options">>) >>

\* "Prepare request data": query parameters for GET, a body otherwise
prepareRequestData(m, pathParams) ==
    IF m.httpMethod = "GET"
    THEN IF m.inputType # "Empty"
         THEN << [stmt |-> "const searchParams",
                  value |-> "this.client.objectToSearchParams", arg |-> "request"],
                 requestCall(m, "undefined", <<"searchParams", "...options">>) >>
         ELSE << requestCall(m, "undefined", <<"options">>) >>
    ELSE IF Len(pathParams) > 0
         THEN << [stmt |-> "const destructure",
                  names |-> [k \in 1..Len(pathParams) |->
                                APIClientGenerator_toCamelCase(pathParams[k])],
                  rest |-> "body", from |-> "request"],
                 requestCall(m, "body", <<"options">>) >>
         ELSE << requestCall(m, "request", <<"options">>) >>

generateMethodBody(m, pathParams) ==
    <<preparePath(m, pathParams)>> \o prepareRequestData(m, pathParams)

(***************************************************************************)
(* JavaScript values handled by the parser: a string (a sequence of        *)
(* tokens), an object (a function from keys to values) or undefined        *)
(***************************************************************************)
Undefined == [t |-> "undefined", v |-> <<>>]

Str(s) == [t |-> "string", v |-> s]

Obj(f) == [t |-> "object", v |-> f]

\* obj[key] and obj?.[key]: undefined when obj is undefined or lacks the key
Lookup(obj, key) ==
    IF obj.t = "object" /\ key \in DOMAIN obj.v THEN obj.v[key] ELSE Undefined

\* JavaScript truthiness: undefined and the empty string are falsy
truthy(val) == val.t = "object" \/ (val.t = "string" /\ val.v # <<>>)

\* a || b
orElse(a, b) == IF truthy(a) THEN a ELSE b

\* String.prototype.startsWith
startsWith(s, prefix) ==
    Len(s) >= Len(prefix) /\ SubSeq(s, 1, Len(prefix)) = prefix

(***************************************************************************)
(* ProtoParser (parser.ts): the HTTP-binding resolver                      *)
(***************************************************************************)
HttpOptionKey == <<"(google.api.http)">>

HttpOptionPrefix == <<"(google.api.http)", ".">>

OpenApiOptionKey == <<"(grpc.gateway.protoc_gen_openapiv2.options.openapiv2_operation)">>

\* the flattened keys are collected without stripping their prefix
flatOptions_prefixKept(options) ==
    LET keys == {key \in DOMAIN options.v : startsWith(key, HttpOptionPrefix)}
    IN [k \in keys |-> options.v[k]]

\* the flattened structure: the keys that start with '(google.api.http).',
\* each stripped of that prefix
flatOptions(options) ==
    LET keys == {key \in DOMAIN options.v : startsWith(key, HttpOptionPrefix)}
        httpKey(key) == replace(key, HttpOptionPrefix, <<>>)
    IN [k \in {httpKey(key) : key \in keys} |->
            options.v[CHOOSE key \in keys : httpKey(key) = k]]

\* "Try the nested structure first", "If not found, try the flattened structure"
resolveHttpOption(m) ==
    LET nested == Lookup(m.options, HttpOptionKey)
    IN IF ~truthy(nested) /\ truthy(m.options)
       THEN LET flat == flatOptions(m.options)
            IN IF DOMAIN flat # {} THEN Obj(flat) ELSE nested
       ELSE nested

\* the fallback: POST and '/' followed by the method's name
defaultHttpOptions(m) == [method |-> "POST", path |-> <<"/", m.name>>]

\* the verb tests of extractHttpOptions, in the order of the code
verbOf(httpOption, m) ==
    IF truthy(Lookup(httpOption, <<"get">>))
    THEN [method |-> "GET", path |-> Lookup(httpOption, <<"get">>).v]
    ELSE IF truthy(Lookup(httpOption, <<"post">>))
    THEN [method |-> "POST", path |-> Lookup(httpOption, <<"post">>).v]
    ELSE IF truthy(Lookup(httpOption, <<"put">>))
    THEN [method |-> "PUT", path |-> Lookup(httpOption, <<"put">>).v]
    ELSE IF truthy(Lookup(httpOption, <<"delete">>))
    THEN [method |-> "DELETE", path |-> Lookup(httpOption, <<"delete">>).v]
    ELSE IF truthy(Lookup(httpOption, <<"patch">>))
    THEN [method |-> "PATCH", path |-> Lookup(httpOption, <<"patch">>).v]
    ELSE defaultHttpOptions(m)

\* method.options is read without the ?. guard: a TypeError when it is undefined
extractHttpOptions_unguarded(m) ==
    IF m.options.t = "undefined"
    THEN [method |-> "TypeError", path |-> <<>>]
    ELSE LET httpOption == resolveHttpOption(m)
         IN IF truthy(httpOption) THEN verbOf(httpOption, m)
            ELSE defaultHttpOptions(m)

extractHttpOptions(m) ==
    LET httpOption == resolveHttpOption(m)
    IN IF truthy(httpOption) THEN verbOf(httpOption, m)
       ELSE defaultHttpOptions(m)

(***************************************************************************)
(* ProtoParser (parser.ts): services, messages, files                      *)
(*                                                                         *)
(* A loaded schema is a tree of protobufjs reflection objects              *)
(* [kind, name, nested, methods, fields].  Type, Service and Root extend   *)
(* Namespace; an Enum does not.                                            *)
(***************************************************************************)
isService(n) == n.kind = "Service"

isType(n) == n.kind = "Type"

isNamespace(n) == n.kind \in {"Namespace", "Type", "Service", "Root"}

\* obj.comment || obj.options?.['(protoc-gen-openapi.options.openapiv2_schema)']?.description
extractComment(obj) ==
    orElse(obj.comment,
           Lookup(Lookup(obj.options,
                         <<"(protoc-gen-openapi.options.openapiv2_schema)">>),
                  <<"description">>))

extractOpenApiOptions(m) ==
    LET openApiOption == Lookup(m.options, OpenApiOptionKey)
    IN [description |-> Lookup(openApiOption, <<"description">>),
        summary |-> Lookup(openApiOption, <<"summary">>),
        tags |-> Lookup(openApiOption, <<"tags">>)]

\* one ProtoMethod of extractMethods
extractMethod(m) ==
    LET http == extractHttpOptions(m)
        openApi == extractOpenApiOptions(m)
    IN [name |-> m.name,
        inputType |-> m.requestType,
        outputType |-> m.responseType,
        httpMethod |-> http.method,
        httpPath |-> http.path,
        description |-> orElse(openApi.description, extractComment(m)),
        summary |-> openApi.summary,
        tags |-> IF truthy(openApi.tags) THEN Obj(<<openApi.tags>>) ELSE Undefined]

extractMethods(service) ==
    [k \in 1..Len(service.methods) |-> extractMethod(service.methods[k])]

normalizeFieldType(type) ==
    IF type = <<"bool">> THEN <<"boolean">>
    ELSE IF type = <<"google.protobuf.Timestamp">> THEN <<"Timestamp">>
    ELSE type

extractFields(type) ==
    [k \in 1..Len(type.fields) |->
        [name |-> type.fields[k].name,
         type |-> normalizeFieldType(type.fields[k].type),
         repeated |-> type.fields[k].repeated,
         optional |-> type.fields[k].optional \/ type.fields[k].partOf # "null",
         number |-> type.fields[k].id,
         description |-> extractComment(type.fields[k])]]

\* string.endsWith on a name whose last token is its suffix
endsWith(name, suffix) == name # <<>> /\ name[Len(name)] = suffix

\* traverseNamespace of extractServices over nested[k..]: a Service is
\* collected, any other Namespace is descended into
RECURSIVE traverseServices(_, _)
traverseServices(nested, k) ==
    IF k > Len(nested) THEN <<>>
    ELSE (IF isService(nested[k])
          THEN << [name |-> nested[k].name,
                   methods |-> extractMethods(nested[k]),
                   description |-> extractComment(nested[k])] >>
          ELSE IF isNamespace(nested[k])
          THEN traverseServices(nested[k].nested, 1)
          ELSE <<>>)
         \o traverseServices(nested, k + 1)

extractServices(root) == traverseServices(root.nested, 1)

\* traverseNamespace of extractMessages over nested[k..]: a Type is
\* collected; only what is not a Type and is a Namespace is descended into
RECURSIVE traverseMessages(_, _)
traverseMessages(nested, k) ==
    IF k > Len(nested) THEN <<>>
    ELSE (IF isType(nested[k])
          THEN << [name |-> nested[k].name,
                   fields |-> extractFields(nested[k]),
                   description |-> extractComment(nested[k]),
                   isRequest |-> endsWith(nested[k].name, "Request"),
                   isResponse |-> endsWith(nested[k].name, "Response")] >>
          ELSE IF isNamespace(nested[k])
          THEN traverseMessages(nested[k].nested, 1)
          ELSE <<>>)
         \o traverseMessages(nested, k + 1)

extractMessages(root) == traverseMessages(root.nested, 1)

\* the import statements of the file's text
extractImports(file) == file.imports

EmptyProtoFile ==
    [package |-> <<>>, services |-> <<>>, messages |-> <<>>, imports |-> <<>>]

\* the try block of parseFile, reached when permissiveRoot.load succeeds
loadedProtoFile(file) ==
    [package |-> IF file.root.nested # <<>>
                 THEN file.root.nested[1].name ELSE <<>>,
     services |-> extractServices(file.root),
     messages |-> extractMessages(file.root),
     imports |-> extractImports(file)]

\* a load error is thrown on to the caller instead of being caught
parseFile_rethrows(file) ==
    IF file.loads
    THEN [threw |-> FALSE, value |-> loadedProtoFile(file)]
    ELSE [threw |-> TRUE, value |-> EmptyProtoFile]

\* parseFile: the result of the try block when the load succeeds, the empty
\* result of the catch block when it throws; parseFile itself never throws
parseFile(file) ==
    IF file.loads
    THEN [threw |-> FALSE, value |-> loadedProtoFile(file)]
    ELSE [threw |-> FALSE, value |-> EmptyProtoFile]

extractSchemaMetadata(files) ==
    IF \E k \in 1..Len(files) : Len(files[k].services) > 0
    THEN [title |-> Str(<<"Generated API Client">>),
          version |-> Str(<<"1.0.0">>),
          description |-> Str(<<"Auto-generated TypeScript API client from protobuf definitions">>)]
    ELSE [title |-> Undefined, version |-> Undefined, description |-> Undefined]

(***************************************************************************)
(* TypeScriptTypeGenerator (type-generator.ts)                             *)
(*                                                                         *)
(* A type name is a sequence of tokens: the name, then a "[]" token for    *)
(* each array suffix.  A message name is a sequence of tokens as well.     *)
(***************************************************************************)

\* int64 and uint64 are mapped like the 32-bit integers
mapProtobufTypeToTypeScript_int64AsNumber(options, protoType, repeated) ==
    LET mapped ==
            IF protoType = <<"string">> THEN <<"string">>
            ELSE IF protoType \in { <<"boolean">>, <<"bool">> } THEN <<"boolean">>
            ELSE IF protoType \in { <<"int32">>, <<"uint32">>, <<"float">>,
                                    <<"double">>, <<"int64">>, <<"uint64">> }
            THEN <<"number">>
            ELSE IF protoType = <<"bytes">> THEN <<"Uint8Array">>
            ELSE IF protoType = <<"Timestamp">>
            THEN (IF options.dateAsString THEN <<"string">> ELSE <<"Date">>)
            ELSE protoType
    IN IF repeated THEN mapped \o <<"[]">> ELSE mapped

mapProtobufTypeToTypeScript(options, protoType, repeated) ==
    LET mapped ==
            IF protoType = <<"string">> THEN <<"string">>
            ELSE IF protoType \in { <<"boolean">>, <<"bool">> } THEN <<"boolean">>
            ELSE IF protoType \in { <<"int32">>, <<"uint32">>, <<"float">>, <<"double">> }
            THEN <<"number">>
            ELSE IF protoType \in { <<"int64">>, <<"uint64">> }
            THEN (IF options.bigintAsString THEN <<"string">> ELSE <<"bigint">>)
            ELSE IF protoType = <<"bytes">> THEN <<"Uint8Array">>
            ELSE IF protoType = <<"Timestamp">>
            THEN (IF options.dateAsString THEN <<"string">> ELSE <<"Date">>)
            ELSE protoType
    IN IF repeated THEN mapped \o <<"[]">> ELSE mapped

\* the pattern without its g flag: only the first match is replaced
toCamelCase_firstMatchOnly(str) ==
    LET at == {i \in 1..(Len(str) - 1) : str[i] = "_" /\ isLowerAZ(str[i + 1])}
    IN IF at = {} THEN str
       ELSE LET i == CHOOSE i \in at : \A j \in at : i <= j
            IN SubSeq(str, 1, i - 1) \o <<toUpperCase(str[i + 1])>>
               \o SubSeq(str, i + 2, Len(str))

TypeScriptTypeGenerator_toCamelCase(str) == replaceUnderscoreLower(str)

generateFieldProperty(options, field) ==
    [name |-> TypeScriptTypeGenerator_toCamelCase(field.name),
     optional |-> field.optional,
     type |-> mapProtobufTypeToTypeScript(options, field.type, field.repeated),
     description |-> field.description]

generateMessageInterface(options, message) ==
    [decl |-> "interface",
     name |-> message.name,
     properties |-> [k \in 1..Len(message.fields) |->
                        generateFieldProperty(options, message.fields[k])],
     description |-> message.description]

\* a property of a utility type
utilityProperty(name, optional, type) ==
    [name |-> name, optional |-> optional, type |-> type, description |-> Undefined]

utilityType(decl, name, properties) ==
    [decl |-> decl, name |-> name, properties |-> properties,
     description |-> Undefined]

generateUtilityTypes(options, generatedInterfaces) ==
    << utilityType("comment", <<"// Utility types">>, <<>>) >>
    \o
    (IF <<"Pagination">> \notin generatedInterfaces
     THEN << utilityType("interface", <<"Pagination">>,
               << utilityProperty("page", FALSE, <<"number">>),
                  utilityProperty("size", FALSE, <<"number">>) >>) >>
     ELSE <<>>)
    \o
    (IF <<"ErrorDetail">> \notin generatedInterfaces
     THEN << utilityType("interface", <<"ErrorDetail">>,
               << utilityProperty("field", FALSE, <<"string">>),
                  utilityProperty("message", FALSE, <<"string">>) >>) >>
     ELSE <<>>)
    \o
    (IF <<"ErrorResponse">> \notin generatedInterfaces
     THEN << utilityType("interface", <<"ErrorResponse">>,
               << utilityProperty("code", FALSE, <<"number">>),
                  utilityProperty("message", FALSE, <<"string">>),
                  utilityProperty("details", TRUE, <<"ErrorDetail", "[]">>) >>) >>
     ELSE <<>>)
    \o
    (IF <<"SuccessResponse">> \notin generatedInterfaces
     THEN << utilityType("interface", <<"SuccessResponse">>,
               << utilityProperty("message", FALSE, <<"string">>),
                  utilityProperty("timestamp", FALSE,
                      IF options.dateAsString THEN <<"string">> ELSE <<"Date">>) >>) >>
     ELSE <<>>)
    \o
    << utilityType("interface", <<"PaginatedRequest">>,
          << utilityProperty("pagination", TRUE, <<"Pagination">>),
             utilityProperty("filter", TRUE, <<"TFilter">>),
             utilityProperty("sort", TRUE, <<"TSort", "[]">>) >>),
       utilityType("interface", <<"PaginatedResponse">>,
          << utilityProperty("data", FALSE, <<"TData">>),
             utilityProperty("total", FALSE, <<"number">>),
             utilityProperty("pagination", FALSE, <<"Pagination">>),
             utilityProperty("hasNextPage", FALSE, <<"boolean">>),
             utilityProperty("hasPrevPage", FALSE, <<"boolean">>) >>),
       utilityType("interface", <<"FilterOperators">>,
          << utilityProperty("eq", TRUE, <<"T">>),
             utilityProperty("ne", TRUE, <<"T">>),
             utilityProperty("gt", TRUE, <<"T">>),
             utilityProperty("gte", TRUE, <<"T">>),
             utilityProperty("lt", TRUE, <<"T">>),
             utilityProperty("lte", TRUE, <<"T">>),
             utilityProperty("in", TRUE, <<"T", "[]">>),
             utilityProperty("nin", TRUE, <<"T", "[]">>),
             utilityProperty("like", TRUE, <<"T">>) >>),
       utilityType("type", <<"FilterBuilder">>, <<>>),
       utilityType("interface", <<"SortDirection">>,
          << utilityProperty("field", FALSE, <<"string">>),
             utilityProperty("direction", FALSE, <<"'asc' | 'desc'">>) >>),
       utilityType("type", <<"SortBuilder">>, <<>>) >>

\* field.type is used as it is, with its array suffix
stripArraySuffix_kept(type) == type

\* field.type.replace(/\[\]$/, ''): one trailing array suffix is removed
stripArraySuffix(type) ==
    IF type # <<>> /\ type[Len(type)] = "[]"
    THEN SubSeq(type, 1, Len(type) - 1)
    ELSE type

\* messageMap.get(name) for messageMap = new Map(messages.map(m => [m.name, m])):
\* of several messages with one name the Map keeps the last
messageMapGet(msgs, name) ==
    LET at == {k \in 1..Len(msgs) : msgs[k].name = name}
    IN IF at = {} THEN [found |-> FALSE, message |-> <<>>]
       ELSE [found |-> TRUE,
             message |-> msgs[CHOOSE k \in at : \A j \in at : j <= k]]

\* a visit call never notices that its message is already being visited
visit_noCycleCheck(message, vd, vg, stk) ==
    IF message.name \in vd
    THEN [visiting |-> vg, stack |-> stk]
    ELSE [visiting |-> vg \cup {message.name},
          stack |-> Append(stk, [message |-> message, fieldIdx |-> 1])]

\* the entry of visit(message), given visited, visiting and the active
\* calls: it returns at once for a visited message and, with a warning, for
\* one that is being visited; otherwise the message is marked as being
\* visited and the loop over its fields starts
visit(message, vd, vg, stk) ==
    IF message.name \in vd
    THEN [visiting |-> vg, stack |-> stk]
    ELSE IF message.name \in vg
    THEN [visiting |-> vg, stack |-> stk]
    ELSE [visiting |-> vg \cup {message.name},
          stack |-> Append(stk, [message |-> message, fieldIdx |-> 1])]

\* the loop of generateTypes over sortedMessages[k..]: an interface per
\* message whose name was not generated before
RECURSIVE generateInterfaces(_, _, _, _)
generateInterfaces(options, sortedMessages, k, generatedInterfaces) ==
    IF k > Len(sortedMessages) THEN <<>>
    ELSE IF sortedMessages[k].name \notin generatedInterfaces
    THEN <<generateMessageInterface(options, sortedMessages[k])>>
         \o generateInterfaces(options, sortedMessages, k + 1,
                               generatedInterfaces \cup {sortedMessages[k].name})
    ELSE generateInterfaces(options, sortedMessages, k + 1, generatedInterfaces)

(***************************************************************************)
(* Inputs of the client generator                                          *)
(***************************************************************************)
MaxPathSegments == 3

HttpMethods == {"GET", "POST", "PUT", "DELETE", "PATCH"}

\* path parameter names: plain, snake_case, capitalised
ParamNames == { <<"i","d">>, <<"u","_","i","d">>, <<"I","d">> }

PathSegments ==
    { <<"/","v","1">> } \cup { <<"/","{">> \o p \o <<"}">> : p \in ParamNames }

HttpPaths == { Flatten(segs) : segs \in SeqUpTo(PathSegments, MaxPathSegments) }

InputTypes == {"Empty", "UpdateUserRequest"}

ProtoMethods ==
    [name : {"UpdateUser"}, inputType : InputTypes, outputType : {"UpdateUserResponse"},
     httpMethod : HttpMethods, httpPath : HttpPaths]

(***************************************************************************)
(* Inputs of the HTTP-binding resolver                                     *)
(***************************************************************************)
MaxBindingKeys == 2

HttpKeys == { <<"get">>, <<"post">>, <<"put">>, <<"delete">>, <<"patch">>, <<"body">> }

PathValues == { Str(<<>>), Str(<<"/a">>), Str(<<"/b">>) }

\* the HTTP bindings of a method: some keys of the http rule, each with a value
Bindings ==
    UNION { [K -> PathValues] :
              K \in {K \in SUBSET HttpKeys : Cardinality(K) <= MaxBindingKeys} }

\* method.options with the binding `nested` under '(google.api.http)' (none
\* when undefined), the binding `flat` under '(google.api.http).<key>' keys
\* and, with `other`, an OpenAPI operation option
OptionEntries(nested, flat, other) ==
    LET keys == (IF nested.t = "object" THEN {HttpOptionKey} ELSE {})
                \cup {HttpOptionPrefix \o k : k \in DOMAIN flat}
                \cup (IF other THEN {OpenApiOptionKey} ELSE {})
    IN [key \in keys |->
          IF key = HttpOptionKey THEN nested
          ELSE IF key = OpenApiOptionKey
          THEN Obj([d \in {<<"summary">>} |-> Str(<<"Get a user">>)])
          ELSE flat[SubSeq(key, 3, Len(key))]]

MethodOptions ==
    {Undefined} \cup
    { Obj(OptionEntries(nf[1], nf[2], other)) :
        nf \in { nf \in ({Undefined} \cup {Obj(b) : b \in Bindings}) \X Bindings :
                   nf[1].t = "undefined" \/ Cardinality(DOMAIN nf[2]) <= 1 },
        other \in BOOLEAN }

ProtobufMethods ==
    [name : {"GetUser", "ListUsers"}, requestType : {"GetUserRequest"},
     responseType : {"GetUserResponse"}, options : MethodOptions,
     comment : {Undefined}]

(***************************************************************************)
(* Inputs of the parser: schema trees and files                            *)
(***************************************************************************)
MaxTreeNodes == 4

MaxFiles == 2

SampleMethod ==
    [name |-> "GetUser", requestType |-> "GetUserRequest",
     responseType |-> "GetUserResponse", options |-> Undefined,
     comment |-> Undefined]

SampleField ==
    [name |-> "created_at", type |-> <<"google.protobuf.Timestamp">>,
     repeated |-> FALSE, optional |-> FALSE, partOf |-> "null", id |-> 1,
     comment |-> Undefined, options |-> Undefined]

ReflectionObject(kind, name, nested) ==
    [kind |-> kind, name |-> name, nested |-> nested,
     methods |-> IF kind = "Service" THEN <<SampleMethod>> ELSE <<>>,
     fields |-> IF kind = "Type" THEN <<SampleField>> ELSE <<>>,
     comment |-> Undefined, options |-> Undefined]

\* what the grammar allows inside a message type, and elsewhere
NodeKinds(insideType) ==
    IF insideType THEN {"Type", "Enum"}
    ELSE {"Namespace", "Type", "Service", "Enum"}

ContainerKinds(insideType) ==
    IF insideType THEN {"Type"} ELSE {"Namespace", "Type"}

\* Trees(n, ...): the declarations made of exactly n nodes; Forests(n, ...):
\* the declaration lists of exactly n nodes in all.  A node is named by its
\* position: its parent's name followed by its index among the children.
RECURSIVE Trees(_, _, _), Forests(_, _, _, _)
Trees(n, name, insideType) ==
    IF n = 1
    THEN {ReflectionObject(K, name, <<>>) : K \in NodeKinds(insideType)}
    ELSE UNION { {ReflectionObject(K, name, f) :
                    f \in Forests(n - 1, name, 1, K = "Type")} :
                 K \in ContainerKinds(insideType) }

Forests(n, parent, i, insideType) ==
    IF n = 0 THEN {<<>>}
    ELSE UNION { { <<t>> \o r :
                     t \in Trees(k, parent \o <<ToString(i)>>, insideType),
                     r \in Forests(n - k, parent, i + 1, insideType) } :
                 k \in 1..n }

Roots(maxNodes) ==
    { ReflectionObject("Root", <<>>, f) :
        f \in UNION {Forests(n, <<"N">>, 1, FALSE) : n \in 0..maxNodes} }

\* one schema file that loads, with any tree of at most MaxTreeNodes nodes
TreeFiles == [loads : {TRUE}, root : Roots(MaxTreeNodes), imports : {<<>>}]

\* the files of a directory: each loads or fails to load
DirFiles ==
    [loads : BOOLEAN, root : Roots(1),
     imports : {<<>>, <<"google/api/annotations.proto">>}]

(***************************************************************************)
(* Inputs of the type generator                                            *)
(***************************************************************************)
MaxSchemaSize == 4

\* the type names given to the type mapper: those of the mapping table,
\* other scalar names, a message name and names that carry an array suffix
ProtoTypes ==
    { <<"string">>, <<"bool">>, <<"boolean">>, <<"int32">>, <<"uint32">>,
      <<"float">>, <<"double">>, <<"int64">>, <<"uint64">>, <<"bytes">>,
      <<"Timestamp">>, <<"sint32">>, <<"fixed64">>,
      <<"google.protobuf.Timestamp">>, <<"User">>, <<"Empty">>,
      <<"int64", "[]">>, <<"User", "[]">> }

TypeMappingOptions == [bigintAsString : BOOLEAN, dateAsString : BOOLEAN]

MessageNames == { <<"A">>, <<"B">>, <<"C">> }

\* the types of the fields: a message name, an array of a message, a scalar
FieldTypes == MessageNames \cup { <<"A", "[]">>, <<"string">> }

SchemaField(type) ==
    [name |-> <<"u", "_", "i", "d">>, type |-> type, repeated |-> FALSE,
     optional |-> FALSE, number |-> 1, description |-> Undefined]

\* the messages of size k: a name and k - 1 fields
MessagesOfSize(k) ==
    { [name |-> n, fields |-> fs, description |-> Undefined] :
        n \in MessageNames,
        fs \in [1..(k - 1) -> {SchemaField(t) : t \in FieldTypes}] }

\* the message lists whose messages and fields number exactly s
RECURSIVE MessageLists(_)
MessageLists(s) ==
    IF s = 0 THEN {<<>>}
    ELSE UNION { { <<m>> \o r : m \in MessagesOfSize(k), r \in MessageLists(s - k) } :
                 k \in 1..s }

Schemas == UNION {MessageLists(s) : s \in 0..MaxSchemaSize}

(***************************************************************************)
(* Specification of the client generator                                   *)
(***************************************************************************)
ClientInit ==
    /\ pc = "method"
    /\ method \in ProtoMethods
    /\ body = <<>>
    /\ pmethod = Idle /\ httpOptions = Idle
    /\ protoFiles = Idle /\ fileIdx = Idle /\ parsedFiles = Idle /\ schema = Idle
    /\ TypesIdle
    /\ RestIdle

\* generateMethod: extractPathParams, then generateMethodBody
GenerateMethod ==
    /\ pc = "method"
    /\ body' = generateMethodBody(method, extractPathParams(method.httpPath))
    /\ pc' = "emitted"
    /\ UNCHANGED <<method, httpVars, parserVars, typeVars, restVars>>

ClientNext == GenerateMethod

SpecClient == ClientInit /\ [][ClientNext]_vars

(***************************************************************************)
(* Specification of the HTTP-binding resolver                              *)
(***************************************************************************)
HttpInit ==
    /\ pc = "method"
    /\ pmethod \in ProtobufMethods
    /\ httpOptions = Idle
    /\ method = Idle /\ body = Idle
    /\ protoFiles = Idle /\ fileIdx = Idle /\ parsedFiles = Idle /\ schema = Idle
    /\ TypesIdle
    /\ RestIdle

ExtractHttpOptions ==
    /\ pc = "method"
    /\ httpOptions' = extractHttpOptions(pmethod)
    /\ pc' = "resolved"
    /\ UNCHANGED <<pmethod, clientVars, parserVars, typeVars, restVars>>

HttpNext == ExtractHttpOptions

SpecHttp == HttpInit /\ [][HttpNext]_vars

(***************************************************************************)
(* Specification of parseFromDirectory                                     *)
(***************************************************************************)
ParserStart(files) ==
    /\ pc = "files"
    /\ protoFiles = files
    /\ fileIdx = 1
    /\ parsedFiles = <<>>
    /\ schema = Idle
    /\ method = Idle /\ body = Idle
    /\ pmethod = Idle /\ httpOptions = Idle
    /\ TypesIdle
    /\ RestIdle

\* a directory of up to MaxFiles files
DirInit == \E files \in SeqUpTo(DirFiles, MaxFiles) : ParserStart(files)

\* a directory holding one file that loads
TreeInit == \E file \in TreeFiles : ParserStart(<<file>>)

\* one iteration of the for loop: a parsed file is pushed, a thrown error is
\* caught and logged
ParseNextFile ==
    /\ pc = "files"
    /\ fileIdx <= Len(protoFiles)
    /\ LET parsed == parseFile(protoFiles[fileIdx])
       IN parsedFiles' = IF parsed.threw THEN parsedFiles
                         ELSE Append(parsedFiles, parsed.value)
    /\ fileIdx' = fileIdx + 1
    /\ UNCHANGED <<pc, protoFiles, schema, clientVars, httpVars, typeVars, restVars>>

\* the return statement after the loop
ReturnSchema ==
    /\ pc = "files"
    /\ fileIdx > Len(protoFiles)
    /\ schema' = [files |-> parsedFiles,
                  metadata |-> extractSchemaMetadata(parsedFiles)]
    /\ pc' = "returned"
    /\ UNCHANGED <<protoFiles, fileIdx, parsedFiles, clientVars, httpVars, typeVars, restVars>>

ParserNext == ParseNextFile \/ ReturnSchema

SpecDir == DirInit /\ [][ParserNext]_vars

SpecTree == TreeInit /\ [][ParserNext]_vars

(***************************************************************************)
(* Specification of the type mapper                                        *)
(***************************************************************************)
OthersIdle ==
    /\ method = Idle /\ body = Idle
    /\ pmethod = Idle /\ httpOptions = Idle
    /\ protoFiles = Idle /\ fileIdx = Idle /\ parsedFiles = Idle /\ schema = Idle

MapInit ==
    /\ pc = "map"
    /\ typeOptions \in TypeMappingOptions
    /\ mapInput \in [protoType : ProtoTypes, repeated : BOOLEAN]
    /\ tsType = Idle
    /\ messages = Idle /\ visited = Idle /\ visiting = Idle /\ result = Idle
    /\ stack = Idle /\ loopIdx = Idle /\ visitCalls = Idle /\ output = Idle
    /\ OthersIdle
    /\ RestIdle

MapType ==
    /\ pc = "map"
    /\ tsType' = mapProtobufTypeToTypeScript(typeOptions, mapInput.protoType,
                                             mapInput.repeated)
    /\ pc' = "mapped"
    /\ UNCHANGED <<typeOptions, mapInput, sortVars, clientVars, httpVars, parserVars, restVars>>

MapNext == MapType

SpecMap == MapInit /\ [][MapNext]_vars

(***************************************************************************)
(* Specification of generateTypes; sortMessagesByDependency runs one visit *)
(* call, one field or one return at a time                                 *)
(***************************************************************************)
TypesInit ==
    /\ pc = "sort"
    /\ typeOptions = [bigintAsString |-> FALSE, dateAsString |-> FALSE]
    /\ mapInput = Idle /\ tsType = Idle
    /\ messages \in Schemas
    /\ visited = {}
    /\ visiting = {}
    /\ result = <<>>
    /\ stack = <<>>
    /\ loopIdx = 1
    /\ visitCalls = 0
    /\ output = <<>>
    /\ OthersIdle
    /\ RestIdle

\* a call visit(message) made while stk is the stack of active calls
Call(message, stk) ==
    LET entered == visit(message, visited, visiting, stk)
    IN /\ visiting' = entered.visiting
       /\ stack' = entered.stack
       /\ visitCalls' = visitCalls + 1

\* one iteration of the final loop: a message not yet visited is visited
SortLoop ==
    /\ pc = "sort"
    /\ stack = <<>>
    /\ loopIdx <= Len(messages)
    /\ IF messages[loopIdx].name \notin visited
       THEN Call(messages[loopIdx], stack)
       ELSE UNCHANGED <<visiting, stack, visitCalls>>
    /\ loopIdx' = loopIdx + 1
    /\ UNCHANGED <<pc, messages, visited, result, output, typeOptions, mapVars,
                   clientVars, httpVars, parserVars, restVars>>

\* one iteration of the loop over the fields of the message being visited:
\* a dependency found in the message map and not yet visited is visited
VisitField ==
    /\ pc = "sort"
    /\ stack # <<>>
    /\ LET top == stack[Len(stack)]
       IN /\ top.fieldIdx <= Len(top.message.fields)
          /\ LET field == top.message.fields[top.fieldIdx]
                 baseType == stripArraySuffix(field.type)
                 dependency == messageMapGet(messages, baseType)
                 advanced == [stack EXCEPT ![Len(stack)].fieldIdx = top.fieldIdx + 1]
             IN IF dependency.found /\ dependency.message.name \notin visited
                THEN Call(dependency.message, advanced)
                ELSE /\ stack' = advanced
                     /\ UNCHANGED <<visiting, visitCalls>>
    /\ UNCHANGED <<pc, messages, visited, result, loopIdx, output, typeOptions,
                   mapVars, clientVars, httpVars, parserVars, restVars>>

\* the end of a visit call: the message is placed after its dependencies
VisitReturn ==
    /\ pc = "sort"
    /\ stack # <<>>
    /\ LET top == stack[Len(stack)]
       IN /\ top.fieldIdx > Len(top.message.fields)
          /\ visiting' = visiting \ {top.message.name}
          /\ visited' = visited \cup {top.message.name}
          /\ result' = Append(result, top.message)
          /\ stack' = SubSeq(stack, 1, Len(stack) - 1)
    /\ UNCHANGED <<pc, messages, loopIdx, visitCalls, output, typeOptions,
                   mapVars, clientVars, httpVars, parserVars, restVars>>

\* sortMessagesByDependency returns result
SortReturn ==
    /\ pc = "sort"
    /\ stack = <<>>
    /\ loopIdx > Len(messages)
    /\ pc' = "sorted"
    /\ UNCHANGED <<sortVars, typeOptions, mapVars, clientVars, httpVars, parserVars, restVars>>

\* an interface is emitted for every entry of the input list, in input order
GenerateTypes_everyEntry ==
    /\ pc = "sorted"
    /\ LET interfaces == [k \in 1..Len(messages) |->
                            generateMessageInterface(typeOptions, messages[k])]
           generatedInterfaces == {interfaces[k].name : k \in 1..Len(interfaces)}
       IN output' = <<utilityType("header", <<>>, <<>>)>>
                    \o interfaces
                    \o generateUtilityTypes(typeOptions, generatedInterfaces)
    /\ pc' = "generated"
    /\ UNCHANGED <<messages, visited, visiting, result, stack, loopIdx, visitCalls,
                   typeOptions, mapVars, clientVars, httpVars, parserVars, restVars>>

\* the rest of generateTypes: the header, an interface per message name in
\* sorted order, the utility types
GenerateTypes ==
    /\ pc = "sorted"
    /\ LET interfaces == generateInterfaces(typeOptions, result, 1, {})
           generatedInterfaces == {interfaces[k].name : k \in 1..Len(interfaces)}
       IN output' = <<utilityType("header", <<>>, <<>>)>>
                    \o interfaces
                    \o generateUtilityTypes(typeOptions, generatedInterfaces)
    /\ pc' = "generated"
    /\ UNCHANGED <<messages, visited, visiting, result, stack, loopIdx, visitCalls,
                   typeOptions, mapVars, clientVars, httpVars, parserVars, restVars>>

SortNext == SortLoop \/ VisitField \/ VisitReturn \/ SortReturn

TypesNext == SortNext \/ GenerateTypes

SpecTypes == TypesInit /\ [][TypesNext]_vars

(***************************************************************************)
(* Claims about the client generator                                       *)
(***************************************************************************)

\* the names between "{" and the next "}" of a path, left to right
RECURSIVE PlaceholderNames(_)
PlaceholderNames(p) ==
    IF p = <<>> THEN <<>>
    ELSE IF p[1] = "{" /\ \E j \in 3..Len(p) : p[j] = "}"
         THEN LET j == CHOOSE j \in 2..Len(p) :
                          p[j] = "}" /\ \A k \in 2..(j-1) : p[k] # "}"
              IN IF j = 2 THEN PlaceholderNames(Tail(p))
                 ELSE <<SubSeq(p, 2, j - 1)>> \o PlaceholderNames(SubSeq(p, j + 1, Len(p)))
         ELSE PlaceholderNames(Tail(p))

\* the path with ${request.<camelCased name>} in place of every {name}
RECURSIVE SubstitutedPath(_)
SubstitutedPath(p) ==
    IF p = <<>> THEN <<>>
    ELSE IF p[1] = "{" /\ \E j \in 3..Len(p) : p[j] = "}"
         THEN LET j == CHOOSE j \in 2..Len(p) :
                          p[j] = "}" /\ \A k \in 2..(j-1) : p[k] # "}"
              IN IF j = 2 THEN <<p[1]>> \o SubstitutedPath(Tail(p))
                 ELSE <<"$", "{", "r", "e", "q", "u", "e", "s", "t", ".">>
                      \o APIClientGenerator_toCamelCase(SubSeq(p, 2, j - 1))
                      \o <<"}">>
                      \o SubstitutedPath(SubSeq(p, j + 1, Len(p)))
         ELSE <<p[1]>> \o SubstitutedPath(Tail(p))

CamelNames(p) ==
    {APIClientGenerator_toCamelCase(n) : n \in Range(PlaceholderNames(p))}

\* the statements of the emitted body of a given kind
Statements(kind) == {i \in 1..Len(body) : body[i].stmt = kind}

\* the data argument of the emitted this.client.request call
SentData == body[Len(body)].data

\* C1: for a verb other than GET, a path with placeholders is emitted as a
\* template literal with ${request.<camel name>} for every placeholder, the
\* camelCased parameters (and nothing else) are destructured out of the
\* request and the remainder is the body; with no placeholder the whole
\* request object is the body.
C1_NonGetBody ==
    (pc = "emitted" /\ method.httpMethod # "GET") =>
        IF PlaceholderNames(method.httpPath) # <<>>
        THEN /\ Len(body) = 3
             /\ body[1] = [stmt |-> "const path", quote |-> "backtick",
                           text |-> SubstitutedPath(method.httpPath)]
             /\ body[2].stmt = "const destructure"
             /\ Range(body[2].names) = CamelNames(method.httpPath)
             /\ body[2].rest = "body"
             /\ body[2].from = "request"
             /\ body[3].stmt = "return this.client.request"
             /\ body[3].verb = method.httpMethod
             /\ body[3].data = "body"
        ELSE /\ Len(body) = 2
             /\ body[1] = [stmt |-> "const path", quote |-> "single",
                           text |-> method.httpPath]
             /\ body[2].stmt = "return this.client.request"
             /\ body[2].verb = method.httpMethod
             /\ body[2].data = "request"

\* a PUT with two different placeholders, one of them snake_case, was emitted
C1_Witness ==
    /\ pc = "emitted"
    /\ method.httpMethod = "PUT"
    /\ PlaceholderNames(method.httpPath) = << <<"u","_","i","d">>, <<"i","d">> >>
    /\ body[2].stmt = "const destructure"
    /\ body[2].names = << <<"u","I","d">>, <<"i","d">> >>
    /\ SentData = "body"

\* C2: for GET with an input type other than Empty, the body converts the
\* request with this.client.objectToSearchParams(request), passes the result
\* as searchParams and passes undefined as the request body.
C2_GetUsesSearchParams ==
    (pc = "emitted" /\ method.httpMethod = "GET" /\ method.inputType # "Empty") =>
        /\ Len(body) = 3
        /\ body[2] = [stmt |-> "const searchParams",
                      value |-> "this.client.objectToSearchParams",
                      arg |-> "request"]
        /\ body[3].stmt = "return this.client.request"
        /\ body[3].verb = "GET"
        /\ body[3].data = "undefined"
        /\ "searchParams" \in Range(body[3].options)

\* a GET with a request type was emitted, with its query serialization
C2_Witness ==
    /\ pc = "emitted"
    /\ method.httpMethod = "GET"
    /\ method.inputType = "UpdateUserRequest"
    /\ Statements("const searchParams") # {}

\* whether property `name` of the request object is part of the body sent
InBody(name) ==
    \/ SentData = "request"
    \/ SentData = "body" /\ \A i \in Statements("const destructure") :
                                name \notin Range(body[i].names)

\* whether property `name` of the request object is part of the object that
\* is serialized into query-string parameters
InQuery(name) ==
    \E i \in Statements("const searchParams") : body[i].arg = "request"

\* C3: whatever the verb, every path parameter is substituted into the path
\* and is excluded from the rest of what is sent: it is neither in the
\* request body nor in the object serialized into the query string.
C3_PathParamsExcluded ==
    (pc = "emitted" /\ PlaceholderNames(method.httpPath) # <<>>) =>
        /\ body[1].text = SubstitutedPath(method.httpPath)
        /\ \A n \in CamelNames(method.httpPath) : ~InBody(n) /\ ~InQuery(n)

(***************************************************************************)
(* Claims about the parser                                                 *)
(***************************************************************************)

\* the binding a method declares in nested form (undefined when it has none)
DeclaredNested(m) == Lookup(m.options, HttpOptionKey)

\* the binding a method declares in dot-flattened form (empty when none)
DeclaredFlat(m) ==
    LET keys == IF m.options.t = "object"
                THEN {k \in HttpKeys : HttpOptionPrefix \o k \in DOMAIN m.options.v}
                ELSE {}
    IN [k \in keys |-> m.options.v[HttpOptionPrefix \o k]]

\* the method with its options replaced by binding b in nested form only
WithNestedOnly(m, b) ==
    [m EXCEPT !.options = Obj([key \in {HttpOptionKey} |-> Obj(b)])]

\* C4: a method that carries no HTTP-binding annotation gets the verb POST
\* and the path '/' followed by its name, and the fallback raises no error.
C4_DefaultBinding ==
    (/\ pc = "resolved"
     /\ DeclaredNested(pmethod).t = "undefined"
     /\ DOMAIN DeclaredFlat(pmethod) = {})
        => httpOptions = [method |-> "POST", path |-> <<"/", pmethod.name>>]

\* the binding of a method that has no options at all was resolved
C4_Witness ==
    /\ pc = "resolved"
    /\ pmethod.options = Undefined
    /\ pmethod.name = "ListUsers"
    /\ httpOptions.method = "POST"

\* C7: a binding exposed as '(google.api.http).<key>' keys resolves to the
\* same verb and path as the same binding exposed as a nested object under
\* '(google.api.http)'; when a nested object is present it alone decides the
\* result and the flattened keys are not used.
C7_NestedFlatEquivalent ==
    pc = "resolved" =>
        IF DeclaredNested(pmethod).t = "object"
        THEN httpOptions =
                extractHttpOptions(WithNestedOnly(pmethod, DeclaredNested(pmethod).v))
        ELSE httpOptions =
                extractHttpOptions(WithNestedOnly(pmethod, DeclaredFlat(pmethod)))

\* a binding exposed only in flattened form resolved to its PUT path
C7_Witness ==
    /\ pc = "resolved"
    /\ DeclaredNested(pmethod).t = "undefined"
    /\ DOMAIN DeclaredFlat(pmethod) = { <<"put">>, <<"body">> }
    /\ httpOptions = [method |-> "PUT", path |-> <<"/a">>]

\* the indices of the directory's files that load
Loadable == {k \in 1..Len(protoFiles) : protoFiles[k].loads}

\* the files that load, in directory order
RECURSIVE LoadedFrom(_)
LoadedFrom(k) ==
    IF k > Len(protoFiles) THEN <<>>
    ELSE (IF protoFiles[k].loads THEN <<protoFiles[k]>> ELSE <<>>)
         \o LoadedFrom(k + 1)

\* C5 as stated: parseFromDirectory returns normally and the returned files
\* hold one entry for each file that parsed and no entry for a file that
\* failed to parse.
C5_FailedFilesExcluded ==
    pc = "returned" =>
        /\ Len(schema.files) = Cardinality(Loadable)
        /\ \A k \in 1..Len(schema.files) :
              schema.files[k] = loadedProtoFile(LoadedFrom(1)[k])

\* C5 as amended: parseFromDirectory returns normally and the returned files
\* hold one entry for every discovered file, in order: the parsed content of
\* a file that loaded, and an empty ProtoFile for a file that failed to load.
C5_FailedFilesEmpty ==
    /\ pc \in {"files", "returned"}
    /\ pc = "files" => (fileIdx <= Len(protoFiles) + 1 /\ Len(parsedFiles) = fileIdx - 1)
    /\ pc = "returned" =>
        /\ Len(schema.files) = Len(protoFiles)
        /\ \A k \in 1..Len(protoFiles) :
              schema.files[k] =
                 IF protoFiles[k].loads
                 THEN [package |-> IF protoFiles[k].root.nested # <<>>
                                   THEN protoFiles[k].root.nested[1].name ELSE <<>>,
                       services |-> extractServices(protoFiles[k].root),
                       messages |-> extractMessages(protoFiles[k].root),
                       imports |-> protoFiles[k].imports]
                 ELSE [package |-> <<>>, services |-> <<>>,
                       messages |-> <<>>, imports |-> <<>>]

\* a directory with a file that fails and a file that declares a service
\* was parsed
C5_Witness ==
    /\ pc = "returned"
    /\ Len(protoFiles) = 2
    /\ ~protoFiles[1].loads
    /\ protoFiles[2].loads
    /\ Len(schema.files) = 2
    /\ Len(schema.files[2].services) = 1

\* the names of the declarations of a kind at any depth of a tree, in
\* document order
RECURSIVE DeclaredNames(_, _, _)
DeclaredNames(kind, nested, k) ==
    IF k > Len(nested) THEN <<>>
    ELSE (IF nested[k].kind = kind THEN <<nested[k].name>> ELSE <<>>)
         \o DeclaredNames(kind, nested[k].nested, 1)
         \o DeclaredNames(kind, nested, k + 1)

NamesOf(decls) == [k \in 1..Len(decls) |-> decls[k].name]

\* C6: for a loaded schema tree the parser returns exactly one Service for
\* every service declaration and exactly one Message for every message
\* declaration at any depth of the tree, message types that nest further
\* message declarations included.
C6_EveryDeclarationFound ==
    pc = "returned" =>
        \A k \in 1..Len(protoFiles) :
            protoFiles[k].loads =>
                /\ NamesOf(schema.files[k].services)
                     = DeclaredNames("Service", protoFiles[k].root.nested, 1)
                /\ NamesOf(schema.files[k].messages)
                     = DeclaredNames("Type", protoFiles[k].root.nested, 1)

(***************************************************************************)
(* Claims about the type generator                                         *)
(***************************************************************************)

\* the mapping table, before the sequence marker is applied
TableType(options, protoType) ==
    CASE protoType = <<"string">> -> <<"string">>
      [] protoType = <<"bool">> -> <<"boolean">>
      [] protoType = <<"boolean">> -> <<"boolean">>
      [] protoType = <<"int32">> -> <<"number">>
      [] protoType = <<"uint32">> -> <<"number">>
      [] protoType = <<"float">> -> <<"number">>
      [] protoType = <<"double">> -> <<"number">>
      [] protoType = <<"int64">> /\ options.bigintAsString -> <<"string">>
      [] protoType = <<"int64">> /\ ~options.bigintAsString -> <<"bigint">>
      [] protoType = <<"uint64">> /\ options.bigintAsString -> <<"string">>
      [] protoType = <<"uint64">> /\ ~options.bigintAsString -> <<"bigint">>
      [] protoType = <<"bytes">> -> <<"Uint8Array">>
      [] protoType = <<"Timestamp">> /\ options.dateAsString -> <<"string">>
      [] protoType = <<"Timestamp">> /\ ~options.dateAsString -> <<"Date">>
      [] OTHER -> protoType

\* C8: the type mapper has a result for every input and option setting, the
\* result follows the mapping table (any name outside the table is returned
\* unchanged), and the result for repeated = true is the result for
\* repeated = false followed by the sequence marker '[]'.
C8_TypeTable ==
    pc = "mapped" =>
        /\ tsType = IF mapInput.repeated
                    THEN Append(TableType(typeOptions, mapInput.protoType), "[]")
                    ELSE TableType(typeOptions, mapInput.protoType)
        /\ mapProtobufTypeToTypeScript(typeOptions, mapInput.protoType, TRUE)
             = Append(mapProtobufTypeToTypeScript(typeOptions, mapInput.protoType, FALSE),
                      "[]")

\* a repeated int64 was mapped with bigintAsString set
C8_Witness ==
    /\ pc = "mapped"
    /\ mapInput = [protoType |-> <<"int64">>, repeated |-> TRUE]
    /\ typeOptions.bigintAsString
    /\ tsType = <<"string", "[]">>

NameSet(msgs) == {msgs[k].name : k \in 1..Len(msgs)}

UniqueNames(msgs) ==
    \A i, j \in 1..Len(msgs) : msgs[i].name = msgs[j].name => i = j

\* message a has a field whose type, without a trailing sequence marker, is
\* the name b
NamesType(a, b) ==
    \E k \in 1..Len(a.fields) :
        a.fields[k].type = b \/ a.fields[k].type = Append(b, "[]")

\* the dependency edges between the names of a message list
DependencyEdges(msgs) ==
    { e \in NameSet(msgs) \X NameSet(msgs) :
        \E k \in 1..Len(msgs) : msgs[k].name = e[1] /\ NamesType(msgs[k], e[2]) }

\* the pairs joined by a path of at most n + 1 edges
RECURSIVE Paths(_, _)
Paths(R, n) ==
    IF n = 0 THEN R
    ELSE LET S == Paths(R, n - 1)
         IN S \cup { <<p[1][1], p[2][2]>> : p \in {q \in S \X R : q[1][2] = q[2][1]} }

Cyclic(msgs) ==
    \E n \in NameSet(msgs) :
        <<n, n>> \in Paths(DependencyEdges(msgs), Cardinality(NameSet(msgs)))

\* the position of the declaration of a name in the emitted types
DeclaredAt(name) == {k \in 1..Len(output) : output[k].name = name}

\* C9: for uniquely named messages with an acyclic dependency graph, the
\* declarations are emitted in an order in which every message comes after
\* every message it depends on.
C9_DependenciesFirst ==
    (pc = "generated" /\ UniqueNames(messages) /\ ~Cyclic(messages)) =>
        \A i, j \in 1..Len(messages) :
            NamesType(messages[i], messages[j].name) =>
                /\ DeclaredAt(messages[i].name) # {}
                /\ DeclaredAt(messages[j].name) # {}
                /\ \A a \in DeclaredAt(messages[i].name) :
                     \A b \in DeclaredAt(messages[j].name) : b < a

\* a message listed before the message it depends on, through an array
\* type, was emitted after it
C9_Witness ==
    /\ pc = "generated"
    /\ Len(messages) = 3
    /\ UniqueNames(messages)
    /\ ~Cyclic(messages)
    /\ messages[1].name = <<"B">>
    /\ messages[2].name = <<"A">>
    /\ messages[1].fields = <<SchemaField(<<"A", "[]">>)>>
    /\ output[2].name = <<"A">>
    /\ output[3].name = <<"B">>

\* the number of times message m occurs in a list
Occurrences(m, msgs) == Cardinality({k \in 1..Len(msgs) : msgs[k] = m})

RECURSIVE FieldCount(_)
FieldCount(msgs) ==
    IF msgs = <<>> THEN 0
    ELSE Len(Head(msgs).fields) + FieldCount(Tail(msgs))

\* C10 as stated: for a message list whose dependency graph has a cycle the
\* sort terminates and its output holds every input message exactly once.
C10_EveryMessageOnce ==
    (pc = "sorted" /\ Cyclic(messages)) =>
        /\ Len(result) = Len(messages)
        /\ \A k \in 1..Len(messages) :
              Occurrences(messages[k], result) = Occurrences(messages[k], messages)

\* C10 as amended: for a message list whose dependency graph has a cycle the
\* sort terminates without raising (every visit call comes from a list
\* entry or from a field, the recursion is no deeper than the number of
\* names, and a step is possible until the sort returns), and its output
\* holds exactly one message for every distinct name of the input and no
\* name twice: every input message exactly once when the names are unique.
C10_EveryNameOnce ==
    Cyclic(messages) =>
        /\ visitCalls <= Len(messages) + FieldCount(messages)
        /\ Len(stack) <= Cardinality(NameSet(messages))
        /\ pc = "sort" => ENABLED SortNext
        /\ pc = "sorted" =>
              /\ UniqueNames(result)
              /\ NameSet(result) = NameSet(messages)
              /\ \A k \in 1..Len(result) : Occurrences(result[k], messages) >= 1
              /\ UniqueNames(messages) =>
                    \A k \in 1..Len(messages) : Occurrences(messages[k], result) = 1

\* a two-message cycle was sorted: both messages are in the result
C10_Witness ==
    /\ pc = "sorted"
    /\ Len(messages) = 2
    /\ messages[1].name = <<"A">>
    /\ messages[2].name = <<"B">>
    /\ messages[1].fields = <<SchemaField(<<"B">>)>>
    /\ messages[2].fields = <<SchemaField(<<"A">>)>>
    /\ Cyclic(messages)
    /\ Len(result) = 2

(***************************************************************************)
(* generateTypes over schemas whose messages bear the names of the         *)
(* utility types                                                           *)
(***************************************************************************)
MaxNamedMessages == 2

\* the names declared by generateUtilityTypes
UtilityNames ==
    { <<"Pagination">>, <<"ErrorDetail">>, <<"ErrorResponse">>,
      <<"SuccessResponse">>, <<"PaginatedRequest">>, <<"PaginatedResponse">>,
      <<"FilterOperators">>, <<"FilterBuilder">>, <<"SortDirection">>,
      <<"SortBuilder">> }

\* messages named like a utility type or not, with no field or with one
\* field of type Pagination
NamedMessages ==
    { [name |-> n, fields |-> fs, description |-> Undefined] :
        n \in UtilityNames \cup { <<"User">> },
        fs \in { <<>>, <<SchemaField(<<"Pagination">>)>> } }

NamedInit ==
    /\ pc = "sort"
    /\ typeOptions = [bigintAsString |-> FALSE, dateAsString |-> FALSE]
    /\ mapInput = Idle /\ tsType = Idle
    /\ messages \in SeqUpTo(NamedMessages, MaxNamedMessages)
    /\ visited = {}
    /\ visiting = {}
    /\ result = <<>>
    /\ stack = <<>>
    /\ loopIdx = 1
    /\ visitCalls = 0
    /\ output = <<>>
    /\ OthersIdle
    /\ RestIdle

SpecNamed == NamedInit /\ [][TypesNext]_vars

(***************************************************************************)
(* Claims about the emitted declarations                                   *)
(***************************************************************************)

\* the positions of the interface declarations of a name in the emitted types
InterfacesAt(name) ==
    {k \in 1..Len(output) : output[k].decl = "interface" /\ output[k].name = name}

\* the position of the "// Utility types" comment
UtilityStart == CHOOSE k \in 1..Len(output) : output[k].decl = "comment"

\* the interfaces that generateUtilityTypes emits whatever the schema declares
AlwaysEmittedInterfaces ==
    { <<"PaginatedRequest">>, <<"PaginatedResponse">>, <<"FilterOperators">>,
      <<"SortDirection">> }

C12_UtilityDeclaredOnce ==
    pc = "generated" =>
        \A U \in UtilityNames :
            /\ Cardinality(DeclaredAt(U)) = 1
            /\ U \in NameSet(messages) => \A k \in DeclaredAt(U) : k < UtilityStart
            /\ U \notin NameSet(messages) => \A k \in DeclaredAt(U) : k > UtilityStart

(***************************************************************************)
(* Two runs of an emitter on the same schema with the same options.  The   *)
(* generator objects keep their options and nothing else; every other      *)
(* piece of state is a local of the call and is created anew.              *)
(***************************************************************************)
TwiceTypesInit ==
    /\ pc = "sort"
    /\ typeOptions = [bigintAsString |-> FALSE, dateAsString |-> FALSE]
    /\ mapInput = Idle /\ tsType = Idle
    /\ messages \in Schemas
    /\ visited = {}
    /\ visiting = {}
    /\ result = <<>>
    /\ stack = <<>>
    /\ loopIdx = 1
    /\ visitCalls = 0
    /\ output = <<>>
    /\ OthersIdle
    /\ run = 1 /\ firstOutput = <<>>
    /\ CaseIdle /\ BuilderIdle /\ InstanceIdle /\ SearchIdle /\ LateIdle

TwiceClientInit ==
    /\ pc = "method"
    /\ method \in ProtoMethods
    /\ body = <<>>
    /\ pmethod = Idle /\ httpOptions = Idle
    /\ protoFiles = Idle /\ fileIdx = Idle /\ parsedFiles = Idle /\ schema = Idle
    /\ TypesIdle
    /\ run = 1 /\ firstOutput = <<>>
    /\ CaseIdle /\ BuilderIdle /\ InstanceIdle /\ SearchIdle /\ LateIdle

TwiceInit == TwiceTypesInit \/ TwiceClientInit

\* the set of visited names is kept from the first call to the second
RerunTypes_visitedKept ==
    /\ pc = "generated"
    /\ run = 1
    /\ firstOutput' = output
    /\ run' = 2
    /\ visiting' = {}
    /\ result' = <<>>
    /\ stack' = <<>>
    /\ loopIdx' = 1
    /\ visitCalls' = 0
    /\ output' = <<>>
    /\ pc' = "sort"
    /\ UNCHANGED <<messages, visited, typeOptions, mapVars, clientVars, httpVars,
                   parserVars, caseVars, builderVars, instanceVars, searchVars, lateVars>>

\* the second call of generateTypes on the same generator and schema: the
\* output of the first call is kept for comparison, and the locals of
\* generateTypes and sortMessagesByDependency are created anew
RerunTypes ==
    /\ pc = "generated"
    /\ run = 1
    /\ firstOutput' = output
    /\ run' = 2
    /\ visited' = {}
    /\ visiting' = {}
    /\ result' = <<>>
    /\ stack' = <<>>
    /\ loopIdx' = 1
    /\ visitCalls' = 0
    /\ output' = <<>>
    /\ pc' = "sort"
    /\ UNCHANGED <<messages, typeOptions, mapVars, clientVars, httpVars,
                   parserVars, caseVars, builderVars, instanceVars, searchVars, lateVars>>

\* the second call of generateMethod on the same generator and method
RerunClient ==
    /\ pc = "emitted"
    /\ run = 1
    /\ firstOutput' = body
    /\ run' = 2
    /\ body' = <<>>
    /\ pc' = "method"
    /\ UNCHANGED <<method, httpVars, parserVars, typeVars,
                   caseVars, builderVars, instanceVars, searchVars, lateVars>>

TwiceNext == TypesNext \/ ClientNext \/ RerunTypes \/ RerunClient

SpecTwice == TwiceInit /\ [][TwiceNext]_vars

MaxNameLen == 5

\* the characters of field names: lowercase letters, an uppercase letter,
\* a digit and the underscore
NameChars == {"a", "b", "A", "1", "_"}

FieldNames == SeqUpTo(NameChars, MaxNameLen)

CaseInit ==
    /\ pc = "name"
    /\ nameInput \in FieldNames
    /\ camelName = Idle
    /\ OthersIdle
    /\ TypesIdle
    /\ RerunIdle /\ BuilderIdle /\ InstanceIdle /\ SearchIdle /\ LateIdle

\* generateFieldProperty: const fieldName = this.toCamelCase(field.name)
ToCamelCase ==
    /\ pc = "name"
    /\ camelName' = TypeScriptTypeGenerator_toCamelCase(nameInput)
    /\ pc' = "converted"
    /\ UNCHANGED <<nameInput, clientVars, httpVars, parserVars, typeVars,
                   rerunVars, builderVars, instanceVars, searchVars, lateVars>>

CaseNext == ToCamelCase

SpecCase == CaseInit /\ [][CaseNext]_vars

(***************************************************************************)
(* Claims about the field-name conversion                                  *)
(***************************************************************************)

\* the words of a name: the pieces between its underscores
RECURSIVE Words(_, _)
Words(s, word) ==
    IF s = <<>> THEN <<word>>
    ELSE IF s[1] = "_" THEN <<word>> \o Words(Tail(s), <<>>)
    ELSE Words(Tail(s), Append(word, s[1]))

\* a lowercase word: a lowercase letter followed by lowercase letters and digits
IsLowerWord(w) ==
    /\ w # <<>>
    /\ isLowerAZ(w[1])
    /\ \A i \in 1..Len(w) : isLowerAZ(w[i]) \/ w[i] = "1"

\* snake_case: lowercase words joined by single underscores
IsSnakeCase(s) == \A i \in 1..Len(Words(s, <<>>)) : IsLowerWord(Words(s, <<>>)[i])

\* the camelCase form: the first word, then every other word capitalised
CamelForm(s) ==
    LET ws == Words(s, <<>>)
    IN Flatten([i \in 1..Len(ws) |->
                  IF i = 1 THEN ws[i]
                  ELSE <<toUpperCase(ws[i][1])>> \o Tail(ws[i])])

\* C14: the conversion maps every snake_case field name to its camelCase
\* form, which holds no underscore, and converting a converted name returns
\* it unchanged, for every name.
C14_CamelCaseIdempotent ==
    pc = "converted" =>
        /\ TypeScriptTypeGenerator_toCamelCase(camelName) = camelName
        /\ IsSnakeCase(nameInput) =>
              /\ camelName = CamelForm(nameInput)
              /\ "_" \notin Range(camelName)

\* a snake_case name of three words was converted
C14_Witness ==
    /\ pc = "converted"
    /\ nameInput = <<"a", "_", "b", "_", "a">>
    /\ IsSnakeCase(nameInput)
    /\ camelName = <<"a", "B", "A">>

(***************************************************************************)
(* TypeScriptTypeGenerator (type-generator.ts): the builder emitters.      *)
(* A field name is a sequence of characters; a message name is a sequence  *)
(* of tokens, as before.  An emitted class is a record of its name, its    *)
(* methods, the return type of build() and its factory function.           *)
(***************************************************************************)
LikeSuffix == <<"L", "i", "k", "e">>

AfterSuffix == <<"A", "f", "t", "e", "r">>

BeforeSuffix == <<"B", "e", "f", "o", "r", "e">>

\* String.prototype.endsWith on a sequence of characters
endsWithText(s, suffix) ==
    Len(s) >= Len(suffix) /\ SubSeq(s, Len(s) - Len(suffix) + 1, Len(s)) = suffix

\* String.prototype.includes on a name made of tokens
includes(name, token) == \E i \in 1..Len(name) : name[i] = token

\* a setter of a filter builder: name(value: paramType) { this.filter.assigns = value }
setter(name, paramType, assigns) ==
    [name |-> name, paramType |-> paramType, assigns |-> assigns]

\* the extra setters are emitted for every field, suffixed or not, and no
\* method name is skipped
filterMethods_noSuffixCheck(options, fields, k, generatedMethods) ==
    Flatten([i \in 1..Len(fields) |->
        LET fieldName == TypeScriptTypeGenerator_toCamelCase(fields[i].name)
            dateType == IF options.dateAsString THEN <<"string">> ELSE <<"Date">>
        IN <<setter(fieldName,
                    mapProtobufTypeToTypeScript(options, fields[i].type, FALSE),
                    fieldName)>>
           \o (IF fields[i].type = <<"string">>
               THEN <<setter(fieldName \o LikeSuffix, <<"string">>,
                             fieldName \o LikeSuffix)>>
               ELSE <<>>)
           \o (IF fields[i].type = <<"Timestamp">>
               THEN <<setter(fieldName \o AfterSuffix, dateType,
                             fieldName \o AfterSuffix),
                      setter(fieldName \o BeforeSuffix, dateType,
                             fieldName \o BeforeSuffix)>>
               ELSE <<>>)])

\* the loop of generateFilterBuilder over message.fields[k..], given the
\* method names generated so far
RECURSIVE filterMethods(_, _, _, _)
filterMethods(options, fields, k, generatedMethods) ==
    IF k > Len(fields) THEN <<>>
    ELSE LET field == fields[k]
             fieldName == TypeScriptTypeGenerator_toCamelCase(field.name)
             fieldType == mapProtobufTypeToTypeScript(options, field.type, FALSE)
             base == /\ ~endsWithText(fieldName, LikeSuffix)
                     /\ ~endsWithText(fieldName, AfterSuffix)
                     /\ ~endsWithText(fieldName, BeforeSuffix)
             isString == base /\ field.type = <<"string">>
             isDate == base /\ field.type = <<"Timestamp">>
             dateType == IF options.dateAsString THEN <<"string">> ELSE <<"Date">>
             likeMethodName == fieldName \o LikeSuffix
             afterMethodName == fieldName \o AfterSuffix
             beforeMethodName == fieldName \o BeforeSuffix
             g1 == generatedMethods \cup {fieldName}
             g2 == IF isString THEN g1 \cup {likeMethodName} ELSE g1
             g3 == IF isDate THEN g2 \cup {afterMethodName} ELSE g2
             g4 == IF isDate THEN g3 \cup {beforeMethodName} ELSE g3
         IN (IF fieldName \notin generatedMethods
             THEN <<setter(fieldName, fieldType, fieldName)>> ELSE <<>>)
            \o (IF isString /\ likeMethodName \notin g1
                THEN <<setter(likeMethodName, <<"string">>, likeMethodName)>>
                ELSE <<>>)
            \o (IF isDate /\ afterMethodName \notin g2
                THEN <<setter(afterMethodName, dateType, afterMethodName)>>
                ELSE <<>>)
            \o (IF isDate /\ beforeMethodName \notin g3
                THEN <<setter(beforeMethodName, dateType, beforeMethodName)>>
                ELSE <<>>)
            \o filterMethods(options, fields, k + 1, g4)

generateFilterBuilder(options, message) ==
    [decl |-> "class",
     kind |-> "filter",
     name |-> message.name \o <<"Builder">>,
     state |-> [name |-> "filter", type |-> <<"Partial<">> \o message.name \o <<">">>],
     methods |-> filterMethods(options, message.fields, 1, {}),
     build |-> message.name,
     factory |-> <<"create">> \o message.name \o <<"Builder">>]

\* String.prototype.charAt(0).toUpperCase() + slice(1)
capitalize(str) ==
    IF str = <<>> THEN <<>> ELSE <<toUpperCase(str[1])>> \o Tail(str)

\* "Infer sortable fields from common patterns"
sortableFields ==
    << <<"i","d">>, <<"n","a","m","e">>,
       <<"c","r","e","a","t","e","d","_","a","t">>,
       <<"u","p","d","a","t","e","d","_","a","t">>,
       <<"e","m","a","i","l">>, <<"p","h","o","n","e">> >>

\* a method of a sort builder:
\* by<Name>(direction = 'asc') { this.sorts.push({ field, direction }) }
sortMethod(fieldName) ==
    [name |-> <<"b", "y">> \o capitalize(TypeScriptTypeGenerator_toCamelCase(fieldName)),
     field |-> fieldName,
     defaultDirection |-> "asc"]

generateSortBuilder(options, message) ==
    [decl |-> "class",
     kind |-> "sort",
     name |-> message.name \o <<"Builder">>,
     state |-> [name |-> "sorts", type |-> <<"SortDirection", "[]">>],
     methods |-> [i \in 1..Len(sortableFields) |-> sortMethod(sortableFields[i])],
     build |-> <<"SortDirection", "[]">>,
     factory |-> <<"create">> \o message.name \o <<"Builder">>]

\* a builder is emitted for every message of the list that bears the token
generateBuilders_everyEntry(options, msgs, k, generatedBuilders, token) ==
    Flatten([i \in 1..Len(msgs) |->
        IF includes(msgs[i].name, token)
        THEN IF token = "Filter" THEN <<generateFilterBuilder(options, msgs[i])>>
             ELSE <<generateSortBuilder(options, msgs[i])>>
        ELSE <<>>])

\* the loop of generateFilterBuilders (token "Filter") and of
\* generateSortBuilders (token "Sort") over messages[k..]
RECURSIVE generateBuilders(_, _, _, _, _)
generateBuilders(options, msgs, k, generatedBuilders, token) ==
    IF k > Len(msgs) THEN <<>>
    ELSE IF includes(msgs[k].name, token) /\ msgs[k].name \notin generatedBuilders
    THEN <<IF token = "Filter" THEN generateFilterBuilder(options, msgs[k])
           ELSE generateSortBuilder(options, msgs[k])>>
         \o generateBuilders(options, msgs, k + 1,
                             generatedBuilders \cup {msgs[k].name}, token)
    ELSE generateBuilders(options, msgs, k + 1, generatedBuilders, token)

generateFilterBuilders(options, msgs) ==
    generateBuilders(options, msgs, 1, {}, "Filter")

generateSortBuilders(options, msgs) ==
    generateBuilders(options, msgs, 1, {}, "Sort")

(***************************************************************************)
(* APIClientGenerator (client-generator.ts): the helper emitters           *)
(***************************************************************************)

\* messages.filter(m => m.name.includes(token)) followed by
\* filter((message, index, self) => index === self.findIndex(same name))
uniqueMessages(msgs, token) ==
    LET hits == {i \in 1..Len(msgs) : includes(msgs[i].name, token)}
        first == {i \in hits : \A j \in hits : msgs[j].name = msgs[i].name => i <= j}
        RECURSIVE pick(_)
        pick(i) == IF i > Len(msgs) THEN <<>>
                   ELSE (IF i \in first THEN <<msgs[i]>> ELSE <<>>) \o pick(i + 1)
    IN pick(1)

\* export function create<Entity><token>(): Types.<Message>Builder
helperFactory(message, token) ==
    [decl |-> "function",
     name |-> <<"create">> \o replace(message.name, <<token>>, <<>>) \o <<token>>,
     returns |-> message.name \o <<"Builder">>]

generateHelpers(msgs, token) ==
    LET unique == uniqueMessages(msgs, token)
    IN [i \in 1..Len(unique) |-> helperFactory(unique[i], token)]

generateFilterHelpers(msgs) == generateHelpers(msgs, "Filter")

generateSortHelpers(msgs) == generateHelpers(msgs, "Sort")

(***************************************************************************)
(* Inputs and specification of the builder emitters, called as             *)
(* ProtoGenerator.generateTypes and generateClient call them               *)
(***************************************************************************)
MaxFilterFields == 3

MaxBuilderMessages == 3

BuilderField(name, type, repeated) ==
    [name |-> name, type |-> type, repeated |-> repeated, optional |-> TRUE,
     number |-> 1, description |-> Undefined]

\* the fields of a filter message: name, name_like, created_at,
\* created_at_after, tenant_ids and tags
FilterFields ==
    { BuilderField(<<"n","a","m","e">>, <<"string">>, FALSE),
      BuilderField(<<"n","a","m","e","_","l","i","k","e">>, <<"string">>, FALSE),
      BuilderField(<<"c","r","e","a","t","e","d","_","a","t">>, <<"Timestamp">>, FALSE),
      BuilderField(<<"c","r","e","a","t","e","d","_","a","t","_","a","f","t","e","r">>,
                   <<"Timestamp">>, FALSE),
      BuilderField(<<"t","e","n","a","n","t","_","i","d","s">>, <<"uint64">>, TRUE),
      BuilderField(<<"t","a","g","s">>, <<"string">>, TRUE) }

\* one filter message with up to MaxFilterFields fields
FilterSchemas ==
    { << [name |-> <<"User", "Filter">>, fields |-> fs, description |-> Undefined] >> :
        fs \in SeqUpTo(FilterFields, MaxFilterFields) }

\* messages named as a filter, as a sort, as both or as neither, without
\* fields or with the fields priority and status
BuilderMessages ==
    { [name |-> n, fields |-> fs, description |-> Undefined] :
        n \in { <<"User", "Filter">>, <<"Custom", "Sort">>, <<"Sort", "Filter">>,
                <<"User">> },
        fs \in { <<>>,
                 << BuilderField(<<"p","r","i","o","r","i","t","y">>, <<"string">>, FALSE),
                    BuilderField(<<"s","t","a","t","u","s">>, <<"string">>, FALSE) >> } }

BuilderSchemas == SeqUpTo(BuilderMessages, MaxBuilderMessages)

BuildersStart(msgs, options) ==
    /\ pc = "filterBuilders"
    /\ messages = msgs
    /\ typeOptions = options
    /\ builders = <<>>
    /\ helpers = <<>>
    /\ mapInput = Idle /\ tsType = Idle
    /\ visited = Idle /\ visiting = Idle /\ result = Idle
    /\ stack = Idle /\ loopIdx = Idle /\ visitCalls = Idle /\ output = Idle
    /\ OthersIdle
    /\ RerunIdle /\ CaseIdle /\ InstanceIdle /\ SearchIdle /\ LateIdle

FilterInit ==
    \E msgs \in FilterSchemas, options \in TypeMappingOptions :
        BuildersStart(msgs, options)

BuildersInit ==
    \E msgs \in BuilderSchemas :
        BuildersStart(msgs, [bigintAsString |-> FALSE, dateAsString |-> FALSE])

\* typeContent += this.typeGenerator.generateFilterBuilders(allMessages)
GenerateFilterBuilders ==
    /\ pc = "filterBuilders"
    /\ builders' = builders \o generateFilterBuilders(typeOptions, messages)
    /\ pc' = "sortBuilders"
    /\ UNCHANGED <<helpers, typeVars, clientVars, httpVars, parserVars,
                   rerunVars, caseVars, instanceVars, searchVars, lateVars>>

\* typeContent += this.typeGenerator.generateSortBuilders(allMessages)
GenerateSortBuilders ==
    /\ pc = "sortBuilders"
    /\ builders' = builders \o generateSortBuilders(typeOptions, messages)
    /\ pc' = "filterHelpers"
    /\ UNCHANGED <<helpers, typeVars, clientVars, httpVars, parserVars,
                   rerunVars, caseVars, instanceVars, searchVars, lateVars>>

\* generateHelperMethods: output += this.generateFilterHelpers(allMessages)
GenerateFilterHelpers ==
    /\ pc = "filterHelpers"
    /\ helpers' = helpers \o generateFilterHelpers(messages)
    /\ pc' = "sortHelpers"
    /\ UNCHANGED <<builders, typeVars, clientVars, httpVars, parserVars,
                   rerunVars, caseVars, instanceVars, searchVars, lateVars>>

\* generateHelperMethods: output += this.generateSortHelpers(allMessages)
GenerateSortHelpers ==
    /\ pc = "sortHelpers"
    /\ helpers' = helpers \o generateSortHelpers(messages)
    /\ pc' = "helpersEmitted"
    /\ UNCHANGED <<builders, typeVars, clientVars, httpVars, parserVars,
                   rerunVars, caseVars, instanceVars, searchVars, lateVars>>

BuildersNext ==
    \/ GenerateFilterBuilders
    \/ GenerateSortBuilders
    \/ GenerateFilterHelpers
    \/ GenerateSortHelpers

SpecFilter == FilterInit /\ [][BuildersNext]_vars

SpecBuilders == BuildersInit /\ [][BuildersNext]_vars

(***************************************************************************)
(* Claims about the builder emitters                                       *)
(***************************************************************************)

\* the builder classes of a kind emitted for a message name
BuildersOf(kind, name) ==
    {i \in 1..Len(builders) :
        builders[i].kind = kind /\ builders[i].name = name \o <<"Builder">>}

\* the first message of the list that bears a name
FirstNamed(name) ==
    messages[CHOOSE i \in 1..Len(messages) :
                /\ messages[i].name = name
                /\ \A j \in 1..Len(messages) : messages[j].name = name => i <= j]

MethodNames(class) == {class.methods[i].name : i \in 1..Len(class.methods)}

Camel(field) == TypeScriptTypeGenerator_toCamelCase(field.name)

Suffixed(n) ==
    \/ endsWithText(n, <<"L","i","k","e">>)
    \/ endsWithText(n, <<"A","f","t","e","r">>)
    \/ endsWithText(n, <<"B","e","f","o","r","e">>)

\* the setter names the filter builder of a message is to have
FilterSetterNames(m) ==
    LET F == Range(m.fields)
    IN {Camel(f) : f \in F}
       \cup {Camel(f) \o <<"L","i","k","e">> :
                f \in {g \in F : g.type = <<"string">> /\ ~Suffixed(Camel(g))}}
       \cup {Camel(f) \o <<"A","f","t","e","r">> :
                f \in {g \in F : g.type = <<"Timestamp">> /\ ~Suffixed(Camel(g))}}
       \cup {Camel(f) \o <<"B","e","f","o","r","e">> :
                f \in {g \in F : g.type = <<"Timestamp">> /\ ~Suffixed(Camel(g))}}

\* C15: the setter names of the builder emitted for a Filter message are
\* exactly the camelCased field names, nLike for every string field and
\* nAfter, nBefore for every Timestamp field whose name n carries none of
\* the three suffixes; every setter name is emitted once.
C15_FilterSetterNames ==
    pc # "filterBuilders" =>
        \A k \in 1..Len(messages) :
            includes(messages[k].name, "Filter") =>
                \A i \in BuildersOf("filter", messages[k].name) :
                    /\ MethodNames(builders[i]) = FilterSetterNames(FirstNamed(messages[k].name))
                    /\ Len(builders[i].methods) = Cardinality(MethodNames(builders[i]))

\* the builder of a filter with the fields name, name_like and created_at
\* was emitted: nameLike once, no nameLikeLike
C15_Witness ==
    /\ pc = "sortBuilders"
    /\ Len(messages[1].fields) = 3
    /\ messages[1].fields[1].name = <<"n","a","m","e">>
    /\ messages[1].fields[2].name = <<"n","a","m","e","_","l","i","k","e">>
    /\ messages[1].fields[3].name = <<"c","r","e","a","t","e","d","_","a","t">>
    /\ Len(builders) = 1
    /\ Len(builders[1].methods) = 5
    /\ builders[1].methods[2].name = <<"n","a","m","e","L","i","k","e">>
    /\ builders[1].methods[5].name
          = <<"c","r","e","a","t","e","d","A","t","B","e","f","o","r","e">>

\* C16: for every field of a Filter message, the setter of that field in
\* the emitted builder takes the type the field has in the message's
\* interface under the same options, the array wrapper of a repeated field
\* included.
C16_SetterTypeIsFieldType ==
    pc # "filterBuilders" =>
        \A k \in 1..Len(messages) :
            includes(messages[k].name, "Filter") =>
                \A i \in BuildersOf("filter", messages[k].name) :
                    \A f \in Range(FirstNamed(messages[k].name).fields) :
                        \E j \in 1..Len(builders[i].methods) :
                            /\ builders[i].methods[j].name = Camel(f)
                            /\ builders[i].methods[j].paramType
                                  = generateFieldProperty(typeOptions, f).type

\* the helper factories create<Entity><token> emitted for a message name
HelpersOf(token, name) ==
    {i \in 1..Len(helpers) :
        /\ helpers[i].decl = "function"
        /\ helpers[i].name = <<"create">> \o replace(name, <<token>>, <<>>) \o <<token>>
        /\ helpers[i].returns = name \o <<"Builder">>}

ByNames(names) ==
    {<<"b", "y">> \o capitalize(TypeScriptTypeGenerator_toCamelCase(n)) : n \in names}

\* C18: the sort builder of a Sort message that declares fields has exactly
\* one by<Field> method per declared field and none of the fallback list;
\* the sort builder of a Sort message without fields has exactly the
\* fallback methods for id, name, created_at, updated_at, email and phone.
C18_SortMethodsFromFields ==
    pc \notin {"filterBuilders", "sortBuilders"} =>
        \A k \in 1..Len(messages) :
            includes(messages[k].name, "Sort") =>
                \A i \in BuildersOf("sort", messages[k].name) :
                    LET m == FirstNamed(messages[k].name)
                    IN MethodNames(builders[i]) =
                          IF m.fields # <<>>
                          THEN ByNames({m.fields[j].name : j \in 1..Len(m.fields)})
                          ELSE ByNames({ <<"i","d">>, <<"n","a","m","e">>,
                                         <<"c","r","e","a","t","e","d","_","a","t">>,
                                         <<"u","p","d","a","t","e","d","_","a","t">>,
                                         <<"e","m","a","i","l">>,
                                         <<"p","h","o","n","e">> })

(***************************************************************************)
(* Specification of a generated sort builder: the class emitted by         *)
(* generateSortBuilder is instantiated, its by<Field> methods are called   *)
(* and build() is called                                                   *)
(***************************************************************************)
MaxCalls == 2

\* the direction argument of a by<Field> call: left out, or given
Directions == {"undefined", "asc", "desc"}

\* a Sort message and a request whose sort field is singular or repeated
InstanceSchemas ==
    { << [name |-> <<"User", "Sort">>, fields |-> <<>>, description |-> Undefined],
         [name |-> <<"GetUsersRequest">>,
          fields |-> << BuilderField(<<"s","o","r","t">>, <<"User", "Sort">>, r) >>,
          description |-> Undefined] >> : r \in BOOLEAN }

InstanceInit ==
    /\ pc = "sortBuilders"
    /\ messages \in InstanceSchemas
    /\ typeOptions = [bigintAsString |-> FALSE, dateAsString |-> FALSE]
    /\ builders = <<>>
    /\ helpers = <<>>
    /\ mapInput = Idle /\ tsType = Idle
    /\ visited = Idle /\ visiting = Idle /\ result = Idle
    /\ stack = Idle /\ loopIdx = Idle /\ visitCalls = Idle /\ output = Idle
    /\ OthersIdle
    /\ RerunIdle /\ CaseIdle /\ InstanceIdle /\ SearchIdle /\ LateIdle

\* create<Message>Builder(): new <Message>Builder(), with sorts = []
CreateSortBuilder ==
    /\ pc = "filterHelpers"
    /\ \E i \in 1..Len(builders) :
          /\ builders[i].kind = "sort"
          /\ sortBuilder' = builders[i]
    /\ sorts' = <<>>
    /\ calls' = <<>>
    /\ built' = [returned |-> FALSE, value |-> <<>>, after |-> 0]
    /\ pc' = "instance"
    /\ UNCHANGED <<builderVars, typeVars, clientVars, httpVars, parserVars,
                   rerunVars, caseVars, searchVars, lateVars>>

\* a by<Field> call keeps only the criterion of the last call
CallBy_lastOnly ==
    /\ pc = "instance"
    /\ Len(calls) < MaxCalls
    /\ \E j \in 1..Len(sortBuilder.methods), direction \in Directions :
          /\ sorts' = << [field |-> sortBuilder.methods[j].field,
                           direction |-> IF direction = "undefined"
                                         THEN sortBuilder.methods[j].defaultDirection
                                         ELSE direction] >>
          /\ calls' = Append(calls, [method |-> sortBuilder.methods[j].name,
                                      direction |-> direction])
    /\ UNCHANGED <<pc, sortBuilder, built, builderVars, typeVars, clientVars,
                   httpVars, parserVars, rerunVars, caseVars, searchVars, lateVars>>

\* by<Field>(direction = 'asc'): this.sorts.push({ field, direction }); return this
CallBy ==
    /\ pc = "instance"
    /\ Len(calls) < MaxCalls
    /\ \E j \in 1..Len(sortBuilder.methods), direction \in Directions :
          /\ sorts' = Append(sorts,
                          [field |-> sortBuilder.methods[j].field,
                           direction |-> IF direction = "undefined"
                                         THEN sortBuilder.methods[j].defaultDirection
                                         ELSE direction])
          /\ calls' = Append(calls, [method |-> sortBuilder.methods[j].name,
                                      direction |-> direction])
    /\ UNCHANGED <<pc, sortBuilder, built, builderVars, typeVars, clientVars,
                   httpVars, parserVars, rerunVars, caseVars, searchVars, lateVars>>

\* build(): return this.sorts
Build ==
    /\ pc = "instance"
    /\ built' = [returned |-> TRUE, value |-> sorts, after |-> Len(calls)]
    /\ UNCHANGED <<pc, sortBuilder, sorts, calls, builderVars, typeVars, clientVars,
                   httpVars, parserVars, rerunVars, caseVars, searchVars, lateVars>>

InstanceNext == GenerateSortBuilders \/ CreateSortBuilder \/ CallBy \/ Build

SpecInstance == InstanceInit /\ [][InstanceNext]_vars

\* the field a by<Field> method of the fallback list is named after
FieldOfMethod(name) ==
    CHOOSE f \in Range(sortableFields) :
        name = <<"b", "y">> \o capitalize(TypeScriptTypeGenerator_toCamelCase(f))

\* the pairs that the first n calls ask for
Criteria(n) ==
    [i \in 1..n |->
        [field |-> FieldOfMethod(calls[i].method),
         direction |-> IF calls[i].direction = "undefined" THEN "asc"
                       ELSE calls[i].direction]]

\* C19: a generated sort builder accumulates a list: whatever calls are
\* made, build() returns one {field, direction} pair per call, in call
\* order, with direction 'asc' for a call that gave none, whether the
\* request declares its sort field as singular or as repeated.
C19_SortBuilderAccumulates ==
    pc = "instance" =>
        /\ sortBuilder.state.type = <<"SortDirection", "[]">>
        /\ sorts = Criteria(Len(calls))
        /\ built.returned => built.value = Criteria(built.after)

\* for a request with a singular sort field, byName() and
\* byCreatedAt('desc') were called and build() returned both criteria
C19_Witness ==
    /\ pc = "instance"
    /\ ~messages[2].fields[1].repeated
    /\ Len(calls) = 2
    /\ calls[1] = [method |-> <<"b","y","N","a","m","e">>, direction |-> "undefined"]
    /\ calls[2].direction = "desc"
    /\ built.returned
    /\ built.value = << [field |-> <<"n","a","m","e">>, direction |-> "asc"],
                        [field |-> <<"c","r","e","a","t","e","d","_","a","t">>,
                         direction |-> "desc"] >>

(***************************************************************************)
(* The runtime client's query serialisation.  A value is undefined, null,  *)
(* a string, a number, an array (a sequence of values) or a plain object   *)
(* (its entries in insertion order); URLSearchParams is the sequence of    *)
(* the appended key/value pairs, keys and values being token sequences     *)
(***************************************************************************)
JsNull == [t |-> "null", v |-> <<>>]

Num(n) == [t |-> "number", v |-> n]

Arr(items) == [t |-> "array", v |-> items]

\* a plain object: entries is a sequence of [key, value] records
Rec(entries) == [t |-> "object", v |-> entries]

RECURSIVE String(_), join(_, _)
\* String(value)
String(value) ==
    CASE value.t = "string" -> value.v
      [] value.t = "number" -> <<ToString(value.v)>>
      [] value.t = "undefined" -> <<"undefined">>
      [] value.t = "null" -> <<"null">>
      [] value.t = "array" -> join(value.v, 1)
      [] value.t = "object" -> <<"[object Object]">>

\* Array.prototype.join(','): null and undefined elements give no text
join(items, k) ==
    IF k > Len(items) THEN <<>>
    ELSE (IF k > 1 THEN <<",">> ELSE <<>>)
         \o (IF items[k].t \in {"undefined", "null"} THEN <<>> ELSE String(items[k]))
         \o join(items, k + 1)

\* value.forEach(item => params.append(key, String(item)))
appendItems(items, key, params) ==
    params \o [i \in 1..Len(items) |-> [key |-> key, value |-> String(items[i])]]

RECURSIVE flattenObject_nullsKept(_, _, _, _)
\* flattenObject without the test of undefined and null
flattenObject_nullsKept(entries, prefix, k, params) ==
    IF k > Len(entries) THEN params
    ELSE LET value == entries[k].value
             fullKey == prefix \o <<".">> \o entries[k].key
             after ==
                 IF value.t = "array" THEN appendItems(value.v, fullKey, params)
                 ELSE IF value.t = "object"
                      THEN flattenObject_nullsKept(value.v, fullKey, 1, params)
                 ELSE Append(params, [key |-> fullKey, value |-> String(value)])
         IN  flattenObject_nullsKept(entries, prefix, k + 1, after)

RECURSIVE flattenObject(_, _, _, _)
\* the loop of flattenObject from entry k on
flattenObject(entries, prefix, k, params) ==
    IF k > Len(entries) THEN params
    ELSE LET value == entries[k].value
             fullKey == prefix \o <<".">> \o entries[k].key
             after ==
                 IF value.t \in {"undefined", "null"} THEN params
                 ELSE IF value.t = "array" THEN appendItems(value.v, fullKey, params)
                 ELSE IF value.t = "object"
                      THEN flattenObject(value.v, fullKey, 1, params)
                 ELSE Append(params, [key |-> fullKey, value |-> String(value)])
         IN  flattenObject(entries, prefix, k + 1, after)

RECURSIVE searchEntries(_, _, _)
\* the loop of objectToSearchParams from entry k on
searchEntries(entries, k, params) ==
    IF k > Len(entries) THEN params
    ELSE LET value == entries[k].value
             key == entries[k].key
             after ==
                 IF value.t \in {"undefined", "null"} THEN params
                 ELSE IF value.t = "array" THEN appendItems(value.v, key, params)
                 ELSE IF value.t = "object"
                      THEN flattenObject(value.v, key, 1, params)
                 ELSE Append(params, [key |-> key, value |-> String(value)])
         IN  searchEntries(entries, k + 1, after)

objectToSearchParams(obj) == searchEntries(obj.v, 1, <<>>)

(***************************************************************************)
(* Specification of the query serialisation: objectToSearchParams is       *)
(* called with any object of at most MaxValueNodes values                  *)
(***************************************************************************)
MaxValueNodes == 4

SearchLeaves == {Undefined, JsNull, Str(<<"name">>), Num(1)}

\* the key of the i-th entry of an object
SearchKey(i) == <<"k" \o ToString(i)>>

\* Values(n): the values made of exactly n values in all; ValueLists(n):
\* the sequences of values made of n values in all
RECURSIVE Values(_), ValueLists(_)
Values(n) ==
    IF n = 1
    THEN SearchLeaves \cup {Arr(<<>>), Rec(<<>>)}
    ELSE LET lists == ValueLists(n - 1)
         IN  {Arr(l) : l \in lists}
             \cup {Rec([i \in 1..Len(l) |-> [key |-> SearchKey(i), value |-> l[i]]]) :
                      l \in lists}

ValueLists(n) ==
    IF n = 0 THEN {<<>>}
    ELSE UNION { LET heads == Values(k)
                     rests == ValueLists(n - k)
                 IN  { <<h>> \o r : h \in heads, r \in rests } :
                 k \in 1..n }

SearchInputs ==
    { o \in UNION {Values(n) : n \in 1..MaxValueNodes} : o.t = "object" }

SearchInit ==
    /\ pc = "search"
    /\ searchInput \in SearchInputs
    /\ searchParams = Idle
    /\ TypesIdle /\ OthersIdle
    /\ RerunIdle /\ CaseIdle /\ BuilderIdle /\ InstanceIdle /\ LateIdle

ObjectToSearchParams ==
    /\ pc = "search"
    /\ searchParams' = objectToSearchParams(searchInput)
    /\ pc' = "searched"
    /\ UNCHANGED <<searchInput, clientVars, httpVars, parserVars, typeVars,
                   rerunVars, caseVars, builderVars, instanceVars, lateVars>>

SearchNext == ObjectToSearchParams

SpecSearch == SearchInit /\ [][SearchNext]_vars

\* a string or a number
IsPrimitive(value) == value.t \in {"string", "number"}

RECURSIVE Serialised(_, _), SerialisedEntries(_, _, _), SerialisedItems(_, _, _)
\* the documented serialisation of a value under a key: nothing for null
\* and undefined, the key once per primitive element of an array,
\* key[i] followed by the element's fields for an object element, and
\* key.sub for the fields of a nested object
Serialised(value, key) ==
    CASE value.t \in {"undefined", "null"} -> <<>>
      [] value.t = "array" -> SerialisedItems(value.v, key, 1)
      [] value.t = "object" -> SerialisedEntries(value.v, key, 1)
      [] OTHER -> << [key |-> key, value |-> String(value)] >>

SerialisedItems(items, key, k) ==
    IF k > Len(items) THEN <<>>
    ELSE (IF items[k].t = "object"
          THEN SerialisedEntries(items[k].v,
                                 key \o <<"[", ToString(k - 1), "]">>, 1)
          ELSE Serialised(items[k], key))
         \o SerialisedItems(items, key, k + 1)

SerialisedEntries(entries, prefix, k) ==
    IF k > Len(entries) THEN <<>>
    ELSE Serialised(entries[k].value,
                    IF prefix = <<>> THEN entries[k].key
                    ELSE prefix \o <<".">> \o entries[k].key)
         \o SerialisedEntries(entries, prefix, k + 1)

RECURSIVE HasObjectArray(_), PlainArrays(_)
\* some array of the value has an object among its elements
HasObjectArray(value) ==
    /\ value.t \in {"array", "object"}
    /\ \/ value.t = "array" /\ \E i \in 1..Len(value.v) : value.v[i].t = "object"
       \/ \E i \in 1..Len(value.v) :
             HasObjectArray(IF value.t = "array" THEN value.v[i] ELSE value.v[i].value)

\* every array of the value holds only objects or only primitives
PlainArrays(value) ==
    value.t \in {"array", "object"} =>
        /\ value.t = "array" =>
              \/ \A i \in 1..Len(value.v) : value.v[i].t = "object"
              \/ \A i \in 1..Len(value.v) : IsPrimitive(value.v[i])
        /\ \A i \in 1..Len(value.v) :
              PlainArrays(IF value.t = "array" THEN value.v[i] ELSE value.v[i].value)

ObjectText == "[object Object]"

\* C20: objectToSearchParams serialises an array of objects into the keys
\* key[i].field, one per field of each element and at any nesting depth,
\* and never emits the text '[object Object]' as a key or as a value.
C20_ObjectArraysIndexed ==
    (pc = "searched" /\ PlainArrays(searchInput) /\ HasObjectArray(searchInput)) =>
        /\ searchParams = SerialisedEntries(searchInput.v, <<>>, 1)
        /\ \A i \in 1..Len(searchParams) :
              /\ ObjectText \notin Range(searchParams[i].key)
              /\ ObjectText \notin Range(searchParams[i].value)

RECURSIVE PrimitiveArrays(_)
\* every array of the value holds only strings and numbers
PrimitiveArrays(value) ==
    value.t \in {"array", "object"} =>
        /\ value.t = "array" => \A i \in 1..Len(value.v) : IsPrimitive(value.v[i])
        /\ \A i \in 1..Len(value.v) :
              PrimitiveArrays(IF value.t = "array" THEN value.v[i] ELSE value.v[i].value)

\* C21: objectToSearchParams omits every key whose value is null or
\* undefined, at the top level and inside nested objects, emits the key
\* once per element for an array of primitives, emits dot-joined keys for
\* nested objects at any depth, and emits nothing for an empty array or an
\* empty object.
C21_PlainValuesSerialised ==
    (pc = "searched" /\ PrimitiveArrays(searchInput)) =>
        searchParams = SerialisedEntries(searchInput.v, <<>>, 1)

\* { k1: null, k2: { k1: 'name' } } was serialised to the single pair
\* k2.k1=name
C21_Witness ==
    /\ pc = "searched"
    /\ searchInput =
         Rec(<< [key |-> <<"k1">>, value |-> JsNull],
                [key |-> <<"k2">>,
                 value |-> Rec(<< [key |-> <<"k1">>, value |-> Str(<<"name">>)] >>)] >>)
    /\ searchParams = << [key |-> <<"k2", ".", "k1">>, value |-> <<"name">>] >>

(***************************************************************************)
(* JWTAuth of the runtime.  A token is its identity, whether it parses as  *)
(* a JWT, and the exp claim of its payload (0 when the payload has no exp: *)
(* the code tests !payload.exp, which treats both alike)                   *)
(***************************************************************************)
MaxTime == 2
MaxAuthCalls == 2

\* the identities of the tokens an onExpired handler returns
RefreshedIds == {1, 2}

JwtToken(id, format, exp) == [id |-> id, format |-> format, exp |-> exp]

\* JWTUtils.isTokenExpired at the time currentTime
isTokenExpired(token, currentTime) ==
    IF token.format # "jwt" THEN TRUE
    ELSE IF token.exp = 0 THEN FALSE
    ELSE token.exp < currentTime

\* the token is kept as it was
updateToken_ignored(a, newToken) == a

\* updateToken: currentToken = newToken, a method that exists only when the
\* instance was constructed with a string
updateToken(a, newToken) ==
    IF a.mode = "string" THEN [a EXCEPT !.currentToken = newToken] ELSE a

\* { Authorization: `Bearer ${token}` }
authHeaders(token) == [Authorization |-> <<"Bearer", " ", token>>]

\* the token a constructor call is given: well-formed with any exp, or not a JWT
InitialTokens ==
    {JwtToken(0, "jwt", e) : e \in 0..MaxTime} \cup {JwtToken(0, "malformed", 0)}

\* the tokens an onExpired handler resolves with
RefreshedTokens == {JwtToken(i, "jwt", e) : i \in RefreshedIds, e \in 0..MaxTime}

ReadyCall ==
    [pc |-> "ready", token |-> Idle, expired |-> FALSE, invoked |-> 0,
     refreshed |-> Idle, headers |-> Idle, stored |-> Idle, prev |-> 0,
     overlapped |-> FALSE]

\* new JWTAuth(tokenOrProvider, { onExpired }); limit is the number of
\* getAuthHeaders calls the callers keep in flight
AuthStart(limit) ==
    /\ pc = "auth"
    /\ auth \in [mode : {"string", "provider"}, onExpired : BOOLEAN,
                 currentToken : InitialTokens, handlerCalls : {0},
                 lastReturned : {0}, limit : {limit}]
    /\ now = 0
    /\ authCalls = [c \in 1..MaxAuthCalls |-> ReadyCall]
    /\ TypesIdle /\ OthersIdle
    /\ RerunIdle /\ CaseIdle /\ BuilderIdle /\ InstanceIdle /\ SearchIdle /\ GenIdle /\ RetryIdle

\* a caller awaits each call before making the next
AuthInit == AuthStart(1)

\* callers make calls without awaiting the earlier ones
ConcurrentAuthInit == AuthStart(MaxAuthCalls)

InFlight == {c \in 1..MaxAuthCalls : authCalls[c].pc \in {"provider", "refresh"}}

\* getAuthHeaders -> getValidToken: this.tokenProvider() is called and awaited
GetAuthHeaders ==
    /\ pc = "auth"
    /\ Cardinality(InFlight) < auth.limit
    /\ \E c \in 1..MaxAuthCalls :
          /\ authCalls[c].pc = "ready"
          /\ authCalls' = [authCalls EXCEPT ![c] =
                 [@ EXCEPT !.pc = "provider", !.token = auth.currentToken,
                           !.prev = auth.lastReturned,
                           !.overlapped = InFlight # {}]]
    /\ UNCHANGED <<pc, auth, now, clientVars, httpVars, parserVars, typeVars,
                   rerunVars, caseVars, builderVars, instanceVars, searchVars, genVars,
                   retryVars>>

\* getValidToken after the provider's token arrived: the expiry test, and
\* either the call of onExpired, the authError or the return of the token
CheckToken ==
    /\ pc = "auth"
    /\ \E c \in 1..MaxAuthCalls :
          /\ authCalls[c].pc = "provider"
          /\ IF isTokenExpired(authCalls[c].token, now)
             THEN IF auth.onExpired
                  THEN /\ authCalls' = [authCalls EXCEPT ![c] =
                              [@ EXCEPT !.pc = "refresh", !.expired = TRUE,
                                        !.invoked = @ + 1]]
                       /\ auth' = [auth EXCEPT !.handlerCalls = @ + 1]
                  ELSE /\ authCalls' = [authCalls EXCEPT ![c] =
                              [@ EXCEPT !.pc = "thrown", !.expired = TRUE]]
                       /\ auth' = auth
             ELSE /\ authCalls' = [authCalls EXCEPT ![c] =
                         [@ EXCEPT !.pc = "returned",
                                   !.headers = authHeaders(authCalls[c].token),
                                   !.stored = auth.currentToken]]
                  /\ auth' = [auth EXCEPT !.lastReturned = c]
    /\ UNCHANGED <<pc, now, clientVars, httpVars, parserVars, typeVars,
                   rerunVars, caseVars, builderVars, instanceVars, searchVars, genVars,
                   retryVars>>

\* the promise of onExpired resolves: updateToken when it exists, then the
\* refreshed token is returned
RefreshResolved ==
    /\ pc = "auth"
    /\ \E c \in 1..MaxAuthCalls, refreshedToken \in RefreshedTokens :
          /\ authCalls[c].pc = "refresh"
          /\ LET updated == updateToken(auth, refreshedToken)
             IN  /\ auth' = [updated EXCEPT !.lastReturned = c]
                 /\ authCalls' = [authCalls EXCEPT ![c] =
                        [@ EXCEPT !.pc = "returned", !.refreshed = refreshedToken,
                                  !.headers = authHeaders(refreshedToken),
                                  !.stored = updated.currentToken]]
    /\ UNCHANGED <<pc, now, clientVars, httpVars, parserVars, typeVars,
                   rerunVars, caseVars, builderVars, instanceVars, searchVars, genVars,
                   retryVars>>

\* the promise of onExpired rejects: the call throws
RefreshRejected ==
    /\ pc = "auth"
    /\ \E c \in 1..MaxAuthCalls :
          /\ authCalls[c].pc = "refresh"
          /\ authCalls' = [authCalls EXCEPT ![c] = [@ EXCEPT !.pc = "thrown"]]
    /\ UNCHANGED <<pc, auth, now, clientVars, httpVars, parserVars, typeVars,
                   rerunVars, caseVars, builderVars, instanceVars, searchVars, genVars,
                   retryVars>>

\* a second passes
Tick ==
    /\ pc = "auth"
    /\ now < MaxTime
    /\ now' = now + 1
    /\ UNCHANGED <<pc, auth, authCalls, clientVars, httpVars, parserVars, typeVars,
                   rerunVars, caseVars, builderVars, instanceVars, searchVars, genVars,
                   retryVars>>

AuthNext ==
    GetAuthHeaders \/ CheckToken \/ RefreshResolved \/ RefreshRejected \/ Tick

SpecAuth == AuthInit /\ [][AuthNext]_vars

SpecAuthConcurrent == ConcurrentAuthInit /\ [][AuthNext]_vars

\* C22: for a JWTAuth made from a string token with an onExpired handler, a
\* getAuthHeaders call that finds the held token expired invokes onExpired
\* exactly once, returns Bearer with the refreshed token and stores that
\* token; the next call, if it finds the stored token unexpired, returns it
\* and does not invoke onExpired.
C22_RefreshedTokenStored ==
    (pc = "auth" /\ auth.mode = "string" /\ auth.onExpired) =>
        \A c \in 1..MaxAuthCalls :
            authCalls[c].pc = "returned" =>
                /\ authCalls[c].expired =>
                      /\ authCalls[c].invoked = 1
                      /\ authCalls[c].headers = authHeaders(authCalls[c].refreshed)
                      /\ authCalls[c].stored = authCalls[c].refreshed
                /\ (authCalls[c].prev # 0 /\ ~authCalls[c].expired) =>
                      /\ authCalls[c].invoked = 0
                      /\ authCalls[c].headers =
                            authHeaders(authCalls[authCalls[c].prev].stored)

\* an expired string token was refreshed by the first call and the second
\* call returned the refreshed token without a second onExpired call
C22_Witness ==
    /\ pc = "auth" /\ auth.mode = "string" /\ auth.onExpired
    /\ auth.handlerCalls = 1
    /\ authCalls[1].pc = "returned" /\ authCalls[1].expired
    /\ authCalls[2].pc = "returned" /\ authCalls[2].prev = 1
    /\ ~authCalls[2].expired
    /\ authCalls[2].headers = authHeaders(authCalls[1].refreshed)

\* C29: when several getAuthHeaders calls on one JWTAuth (string token,
\* expired, with an onExpired handler) are in flight at the same time,
\* onExpired is invoked only once for that expiry and every call returns
\* the same refreshed token.
C29_SingleRefreshInFlight ==
    (pc = "auth" /\ auth.mode = "string" /\ auth.onExpired) =>
        \A c, d \in 1..MaxAuthCalls :
            ( /\ c # d
              /\ authCalls[c].expired /\ authCalls[d].expired
              /\ authCalls[c].token = authCalls[d].token
              /\ authCalls[d].overlapped ) =>
                /\ auth.handlerCalls = 1
                /\ (authCalls[c].pc = "returned" /\ authCalls[d].pc = "returned") =>
                      authCalls[c].headers = authCalls[d].headers

(***************************************************************************)
(* APIClientGenerator (client-generator.ts): the client class              *)
(***************************************************************************)
Bool(b) == [t |-> "boolean", v |-> b]

\* a ?? b
nullish(a, b) == IF a.t \in {"undefined", "null"} THEN b ELSE a

\* the test `if (option)` on an optional boolean option
enabled(val) == val.t = "boolean" /\ val.v

\* generateMethod: the doc comment, the camelCase name, the signature, the body
generateMethod(options, m) ==
    [decl |-> "method",
     doc |-> enabled(options.generateComments),
     name |-> APIClientGenerator_toCamelCase(m.name),
     params |-> IF m.httpMethod = "GET" /\ m.inputType = "Empty"
                THEN <<"options">> ELSE <<"request", "options">>,
     inputType |-> m.inputType,
     outputType |-> m.outputType,
     body |-> generateMethodBody(m, extractPathParams(m.httpPath))]

generateServiceMethods(options, service) ==
    (IF enabled(options.generateComments) /\ truthy(service.description)
     THEN << [decl |-> "comment", text |-> service.description.v] >> ELSE <<>>)
    \o [k \in 1..Len(service.methods) |-> generateMethod(options, service.methods[k])]

\* the methods of the services are written one after the other into the
\* text of a single class
generateClientClass(options, services) ==
    [decl |-> "class",
     doc |-> enabled(options.generateComments),
     name |-> options.clientName,
     members |-> << [decl |-> "constructor", baseUrl |-> options.baseUrl] >>
                 \o Flatten([k \in 1..Len(services) |->
                                generateServiceMethods(options, services[k])]),
     factory |-> <<"create">> \o options.clientName]

\* schema.files.flatMap(file => file.services)
allServices(s) == Flatten([k \in 1..Len(s.files) |-> s.files[k].services])

\* schema.files.flatMap(file => file.messages)
allMessages(s) == Flatten([k \in 1..Len(s.files) |-> s.files[k].messages])

generateClient(options, s) ==
    [header |-> "// This file is auto-generated. Do not edit manually.",
     imports |-> <<"proto2fetch/runtime", "./types.js">>,
     class |-> generateClientClass(options, allServices(s))]

generatePaginationHelpers ==
    << [decl |-> "function", name |-> <<"createPagination">>,
        returns |-> <<"Pagination">>],
       [decl |-> "function", name |-> <<"createPaginatedRequest">>,
        returns |-> <<"PaginatedRequest">>] >>

generateHelperMethods(options, s) ==
    generatePaginationHelpers
    \o (IF enabled(options.generateFilterBuilders)
        THEN generateFilterHelpers(allMessages(s)) ELSE <<>>)
    \o (IF enabled(options.generateSortBuilders)
        THEN generateSortHelpers(allMessages(s)) ELSE <<>>)

(***************************************************************************)
(* Proto2FetchGenerator (index.ts)                                         *)
(***************************************************************************)
\* the constructor's typeMappingOptions
typeMappingOptions(options) ==
    [bigintAsString |-> options.bigintType = Str(<<"string">>),
     dateAsString |-> options.dateType = Str(<<"string">>)]

\* the constructor's clientOptions
clientOptions(options) ==
    [clientName |-> orElse(options.clientName, Str(<<"APIClient">>)).v,
     baseUrl |-> <<>>,
     generateComments |-> nullish(options.includeComments, Bool(TRUE)),
     generateFilterBuilders |-> nullish(options.generateFilterBuilders, Bool(TRUE)),
     generateSortBuilders |-> nullish(options.generateSortBuilders, Bool(TRUE))]

\* generateTypes of the orchestrator: the builders appended to the types
typeBuilders(options, typeOpts, msgs) ==
    (IF enabled(options.generateFilterBuilders)
     THEN generateFilterBuilders(typeOpts, msgs) ELSE <<>>)
    \o (IF enabled(options.generateSortBuilders)
        THEN generateSortBuilders(typeOpts, msgs) ELSE <<>>)

generatePackageJson(options, s) ==
    [name |-> orElse(options.packageName, Str(<<"generated-api-client">>)).v,
     version |-> <<"1.0.0">>,
     description |-> orElse(s.metadata.description,
                            Str(<<"Generated API client from protobuf definitions">>)).v]

generateReadme(options, s) ==
    [title |-> orElse(options.packageName, Str(<<"Generated API Client">>)).v,
     clientName |-> orElse(options.clientName, Str(<<"APIClient">>)).v,
     examples |-> LET allMethods == Flatten([k \in 1..Len(allServices(s)) |->
                                               allServices(s)[k].methods])
                  IN  [k \in 1..(IF Len(allMethods) < 3 THEN Len(allMethods) ELSE 3) |->
                          APIClientGenerator_toCamelCase(allMethods[k].name)]]

(***************************************************************************)
(* Specification of one run of generate(): the files of the directory are  *)
(* parsed, the types are generated and written, then the client, the       *)
(* package descriptor and the readme; a file-system call may raise         *)
(***************************************************************************)
\* a flag of GeneratorOptions: left unset, true or false
OptionFlags == {Undefined, Bool(TRUE), Bool(FALSE)}

GeneratorOptions ==
    [generateFilterBuilders : OptionFlags, generateSortBuilders : OptionFlags,
     includeComments : {Undefined}, clientName : {Undefined},
     packageName : {Undefined}, bigintType : {Undefined}, dateType : {Undefined}]

\* a method GetUser bound to the verb and path given
GenMethod(verb, path) ==
    [name |-> <<"G","e","t","U","s","e","r">>, requestType |-> "GetUserRequest",
     responseType |-> "GetUserResponse",
     options |-> Obj([o \in {HttpOptionKey} |-> Obj([v \in {verb} |-> Str(path)])]),
     comment |-> Undefined]

GenService(name, verb, path) ==
    [kind |-> "Service", name |-> name, nested |-> <<>>,
     methods |-> <<GenMethod(verb, path)>>, fields |-> <<>>,
     comment |-> Undefined, options |-> Undefined]

GenType(name, fieldNames) ==
    [kind |-> "Type", name |-> name, nested |-> <<>>, methods |-> <<>>,
     fields |-> [k \in 1..Len(fieldNames) |->
                   [name |-> fieldNames[k], type |-> <<"string">>,
                    repeated |-> FALSE, optional |-> TRUE, partOf |-> "null",
                    id |-> k, comment |-> Undefined, options |-> Undefined]],
     comment |-> Undefined, options |-> Undefined]

GenFile(loads, nested) ==
    [loads |-> loads,
     root |-> [kind |-> "Root", name |-> <<>>, nested |-> nested, methods |-> <<>>,
               fields |-> <<>>, comment |-> Undefined, options |-> Undefined],
     imports |-> <<>>]

UserService == GenService(<<"User", "Service">>, <<"post">>, <<"/","a">>)

AdminService == GenService(<<"Admin", "Service">>, <<"get">>, <<"/","b">>)

\* a file that fails to load, files with a service and a Filter or Sort
\* message, a file with two services, a file that declares UserFilter again
GenFiles ==
    { GenFile(FALSE, <<>>),
      GenFile(TRUE, <<UserService, GenType(<<"User", "Filter">>, <<<<"n","a","m","e">>>>)>>),
      GenFile(TRUE, <<AdminService, GenType(<<"User", "Sort">>, <<>>)>>),
      GenFile(TRUE, <<UserService, AdminService>>),
      GenFile(TRUE, <<GenType(<<"User", "Filter">>, <<>>)>>) }

GenerateInit ==
    /\ pc = "start"
    /\ protoFiles \in SeqUpTo(GenFiles, MaxFiles)
    /\ fileIdx = 1
    /\ parsedFiles = <<>>
    /\ schema = Idle
    /\ genOptions \in GeneratorOptions
    /\ written = <<>>
    /\ failedAt = "none"
    /\ method = Idle /\ body = Idle
    /\ pmethod = Idle /\ httpOptions = Idle
    /\ TypesIdle
    /\ RerunIdle /\ CaseIdle /\ BuilderIdle /\ InstanceIdle /\ SearchIdle /\ AuthIdle
    /\ RetryIdle

\* a step raises: generate() rejects and nothing after the step runs
Raise(step) ==
    /\ pc' = "failed"
    /\ failedAt' = step

\* fs.writeFileSync(path.join(outputDir, name), content): the file is
\* written and the next step follows, or the call raises
WriteFile(name, content, step, next) ==
    \E ok \in BOOLEAN :
        IF ok
        THEN /\ written' = Append(written, [name |-> name, content |-> content])
             /\ pc' = next
             /\ failedAt' = failedAt
        ELSE /\ Raise(step)
             /\ written' = written

\* parseFromDirectory: findProtoFiles reads the directory, or raises
FindProtoFiles ==
    /\ pc = "start"
    /\ \E ok \in BOOLEAN :
          IF ok THEN pc' = "files" /\ failedAt' = failedAt ELSE Raise("parse")
    /\ UNCHANGED <<genOptions, written, clientVars, httpVars, parserVars, typeVars,
                   rerunVars, caseVars, builderVars, instanceVars, searchVars,
                   authVars, retryVars>>

\* ensureOutputDirectory: existsSync and mkdirSync
EnsureOutputDirectory ==
    /\ pc = "returned"
    /\ \E ok \in BOOLEAN :
          IF ok THEN pc' = "types" /\ failedAt' = failedAt ELSE Raise("mkdir")
    /\ UNCHANGED <<genOptions, written, clientVars, httpVars, parserVars, typeVars,
                   rerunVars, caseVars, builderVars, instanceVars, searchVars,
                   authVars, retryVars>>

\* generateTypes of the orchestrator calls typeGenerator.generateTypes(schema):
\* the messages of all files are handed to sortMessagesByDependency
StartGenerateTypes ==
    /\ pc = "types"
    /\ typeOptions' = typeMappingOptions(genOptions)
    /\ messages' = allMessages(schema)
    /\ visited' = {}
    /\ visiting' = {}
    /\ result' = <<>>
    /\ stack' = <<>>
    /\ loopIdx' = 1
    /\ visitCalls' = 0
    /\ output' = <<>>
    /\ pc' = "sort"
    /\ UNCHANGED <<mapVars, genVars, clientVars, httpVars, parserVars,
                   rerunVars, caseVars, builderVars, instanceVars, searchVars,
                   authVars, retryVars>>

\* the client is generated without types.ts having been written
WriteTypes_afterClient ==
    /\ pc = "generated"
    /\ pc' = "client"
    /\ UNCHANGED <<genVars, clientVars, httpVars, parserVars, typeVars,
                   rerunVars, caseVars, builderVars, instanceVars, searchVars,
                   authVars, retryVars>>

\* the rest of the orchestrator's generateTypes: the builders that the
\* options ask for are appended and types.ts is written
WriteTypes ==
    /\ pc = "generated"
    /\ WriteFile("types.ts",
                 [types |-> output,
                  builders |-> typeBuilders(genOptions, typeOptions,
                                            allMessages(schema))],
                 "types", "client")
    /\ UNCHANGED <<genOptions, clientVars, httpVars, parserVars, typeVars,
                   rerunVars, caseVars, builderVars, instanceVars, searchVars,
                   authVars, retryVars>>

\* generateClient of the orchestrator: the client class, the helper
\* functions, and client.ts is written
GenerateClientFile ==
    /\ pc = "client"
    /\ WriteFile("client.ts",
                 [client |-> generateClient(clientOptions(genOptions), schema),
                  helpers |-> generateHelperMethods(clientOptions(genOptions), schema)],
                 "client", "package")
    /\ UNCHANGED <<genOptions, clientVars, httpVars, parserVars, typeVars,
                   rerunVars, caseVars, builderVars, instanceVars, searchVars,
                   authVars, retryVars>>

GeneratePackageJson ==
    /\ pc = "package"
    /\ WriteFile("package.json", generatePackageJson(genOptions, schema),
                 "package", "readme")
    /\ UNCHANGED <<genOptions, clientVars, httpVars, parserVars, typeVars,
                   rerunVars, caseVars, builderVars, instanceVars, searchVars,
                   authVars, retryVars>>

GenerateReadme ==
    /\ pc = "readme"
    /\ WriteFile("README.md", generateReadme(genOptions, schema), "readme", "done")
    /\ UNCHANGED <<genOptions, clientVars, httpVars, parserVars, typeVars,
                   rerunVars, caseVars, builderVars, instanceVars, searchVars,
                   authVars, retryVars>>

GenerateNext ==
    \/ FindProtoFiles
    \/ ParserNext
    \/ EnsureOutputDirectory
    \/ StartGenerateTypes
    \/ TypesNext
    \/ WriteTypes
    \/ GenerateClientFile
    \/ GeneratePackageJson
    \/ GenerateReadme

SpecGenerate == GenerateInit /\ [][GenerateNext]_vars

\* the content of a written file
FileContent(name) ==
    written[CHOOSE k \in 1..Len(written) : written[k].name = name].content

Written(name) == \E k \in 1..Len(written) : written[k].name = name

\* the helper functions of client.ts that return a builder
BuilderHelpers ==
    LET hs == FileContent("client.ts").helpers
    IN  {hs[k] : k \in {k \in 1..Len(hs) : endsWith(hs[k].returns, "Builder")}}

\* the names of the builder classes declared in types.ts
DeclaredBuilders ==
    LET bs == FileContent("types.ts").builders
    IN  {bs[k].name : k \in 1..Len(bs)}

\* C23: in one generation run, whatever the GeneratorOptions (the builder
\* flags left unset included), every builder class that a create<Entity>Filter
\* or create<Entity>Sort helper of the client file references is declared in
\* the types file.
C23_HelpersReferenceDeclaredBuilders ==
    (Written("types.ts") /\ Written("client.ts")) =>
        \A h \in BuilderHelpers : h.returns \in DeclaredBuilders

\* the methods of the emitted client class
ClassMethods ==
    LET ms == FileContent("client.ts").client.class.members
    IN  [k \in {k \in 1..Len(ms) : ms[k].decl = "method"} |-> ms[k]]

\* the method emitted for the last declaration, over all services, of a
\* method with the emitted name n
LastDeclared(n) ==
    LET services == allServices(schema)
        methods == Flatten([k \in 1..Len(services) |-> services[k].methods])
        k == CHOOSE k \in 1..Len(methods) :
                 /\ APIClientGenerator_toCamelCase(methods[k].name) = n
                 /\ \A j \in (k + 1)..Len(methods) :
                       APIClientGenerator_toCamelCase(methods[j].name) # n
    IN  generateMethod(clientOptions(genOptions), methods[k])

\* C24: when two services each declare a method with the same name, the
\* emitted client class holds a single method of that name, the one
\* generated from the later service.
C24_LaterServiceOverwrites ==
    Written("client.ts") =>
        \A k \in DOMAIN ClassMethods :
            /\ \A j \in DOMAIN ClassMethods :
                  ClassMethods[j].name = ClassMethods[k].name => j = k
            /\ ClassMethods[k] = LastDeclared(ClassMethods[k].name)

\* the names of the files that generate() writes, in order
OutputOrder == <<"types.ts", "client.ts", "package.json", "README.md">>

\* the number of files written when the step raises
WrittenBefore(step) ==
    CASE step \in {"parse", "mkdir", "types"} -> 0
      [] step = "client" -> 1
      [] step = "package" -> 2
      [] step = "readme" -> 3

\* the generation of the types has started, or a later step
OutputStarted ==
    \/ pc \in {"sort", "sorted", "generated", "client", "package", "readme", "done"}
    \/ pc = "failed" /\ failedAt \in {"types", "client", "package", "readme"}

\* C27: in one run of generate(), every schema file has been read and parsed
\* before any output is generated, types.ts is generated and written before
\* the generation of the client starts, the package descriptor and the
\* readme follow, and when a step raises no later step runs.
C27_StepsInOrder ==
    /\ OutputStarted =>
          /\ fileIdx > Len(protoFiles)
          /\ Len(schema.files) = Len(protoFiles)
    /\ pc \in {"client", "package", "readme", "done"} => Written("types.ts")
    /\ Len(written) <= Len(OutputOrder)
    /\ \A k \in 1..Len(written) : written[k].name = OutputOrder[k]
    /\ (pc = "failed") = (failedAt # "none")
    /\ pc = "failed" => Len(written) = WrittenBefore(failedAt)
    /\ pc = "done" => Len(written) = Len(OutputOrder)

\* a run over two files wrote the four files
C27_Witness ==
    /\ pc = "done"
    /\ Len(protoFiles) = 2
    /\ [k \in 1..Len(written) |-> written[k].name] = OutputOrder

(***************************************************************************)
(* Specification of the two emitters on one name: the client emitter       *)
(* generates a method whose path holds the placeholder {p}, the type       *)
(* emitter generates the property of a field named p                       *)
(***************************************************************************)
\* a method bound to POST /{p}
PlaceholderMethod(p) ==
    [name |-> "UpdateUser", inputType |-> "UpdateUserRequest",
     outputType |-> "UpdateUserResponse", httpMethod |-> "POST",
     httpPath |-> <<"/", "{">> \o p \o <<"}">>]

PropertyInit ==
    /\ pc = "method"
    /\ nameInput \in FieldNames \ {<<>>}
    /\ camelName = Idle
    /\ method = PlaceholderMethod(nameInput)
    /\ body = <<>>
    /\ pmethod = Idle /\ httpOptions = Idle
    /\ protoFiles = Idle /\ fileIdx = Idle /\ parsedFiles = Idle /\ schema = Idle
    /\ TypesIdle
    /\ RerunIdle /\ BuilderIdle /\ InstanceIdle /\ SearchIdle /\ LateIdle

\* generateMethod of the client emitter, then the type emitter's turn
GeneratePlaceholderMethod ==
    /\ pc = "method"
    /\ body' = generateMethodBody(method, extractPathParams(method.httpPath))
    /\ pc' = "name"
    /\ UNCHANGED <<method, httpVars, parserVars, typeVars, restVars>>

PropertyNext == GeneratePlaceholderMethod \/ ToCamelCase

SpecProperty == PropertyInit /\ [][PropertyNext]_vars

\* C25: for every path placeholder {p}, the property name that the client
\* emitter substitutes into the path and destructures from the request is
\* the property name that the type emitter gives to a field named p.
C25_SamePropertyName ==
    pc = "converted" =>
        /\ body[1].text = <<"/">> \o requestProperty(camelName)
        /\ body[2].names = <<camelName>>

(***************************************************************************)
(* Specification of two runs of the type emitter on the same messages, the *)
(* second with the messages of equal name in another order                 *)
(***************************************************************************)
\* the lists obtained from msgs by exchanging messages of equal name
SameNameOrderings(msgs) ==
    { [k \in 1..Len(msgs) |-> msgs[p[k]]] :
        p \in { p \in [1..Len(msgs) -> 1..Len(msgs)] :
                  /\ \A i, j \in 1..Len(msgs) : p[i] = p[j] => i = j
                  /\ \A k \in 1..Len(msgs) : msgs[p[k]].name = msgs[k].name } }

\* generateTypes is called again, the same-named messages of the list
\* having changed places; the output of the first call is kept
RerunReordered ==
    /\ pc = "generated"
    /\ run = 1
    /\ firstOutput' = output
    /\ run' = 2
    /\ messages' \in SameNameOrderings(messages)
    /\ visited' = {}
    /\ visiting' = {}
    /\ result' = <<>>
    /\ stack' = <<>>
    /\ loopIdx' = 1
    /\ visitCalls' = 0
    /\ output' = <<>>
    /\ pc' = "sort"
    /\ UNCHANGED <<typeOptions, mapVars, clientVars, httpVars,
                   parserVars, caseVars, builderVars, instanceVars, searchVars, lateVars>>

ReorderNext == TypesNext \/ RerunReordered

SpecReorder == TwiceTypesInit /\ [][ReorderNext]_vars

\* the interfaces that a list of declarations holds for a message name
DeclarationsOf(declarations, name) ==
    { declarations[k] : k \in { k \in 1..Len(declarations) :
                                  /\ declarations[k].decl = "interface"
                                  /\ declarations[k].name = name } }

\* C26: when several messages of the input bear the same name, the
\* declaration emitted for that name is the same for every ordering of those
\* messages in the input list, whichever other messages reference the name.
C26_DuplicateOrderIndependent ==
    (run = 2 /\ pc = "generated") =>
        \A k \in 1..Len(messages) :
            DeclarationsOf(output, messages[k].name)
                = DeclarationsOf(firstOutput, messages[k].name)

(***************************************************************************)
(* RetryHandler of the runtime (error.ts)                                  *)
(***************************************************************************)
MaxRetries == 2

\* new APIError(status, code, message)
APIError(status, code) == [api |-> TRUE, status |-> status, code |-> code]

\* a value thrown that is no APIError
PlainError == [api |-> FALSE, status |-> 0, code |-> "Error"]

isClientError(e) == e.status >= 400 /\ e.status < 500

isServerError(e) == e.status >= 500 /\ e.status < 600

isNetworkError(e) == e.status = 0

isTimeoutError(e) == e.code = "TIMEOUT"

isAuthError(e) == e.status = 401 \/ e.code = "AUTH_ERROR"

isAuthzError(e) == e.status = 403 \/ e.code = "AUTHZ_ERROR"

\* ErrorUtils.toAPIError
toAPIError(error) ==
    IF error.api THEN error ELSE APIError(500, "UNKNOWN_ERROR")

\* every error is retried
isRetryable_always(error) == TRUE

\* RetryHandler.isRetryable
isRetryable(error) ==
    IF isClientError(error) /\ ~isTimeoutError(error) THEN FALSE
    ELSE IF isAuthError(error) \/ isAuthzError(error) THEN FALSE
    ELSE isServerError(error) \/ isNetworkError(error) \/ isTimeoutError(error)

\* what fn rejects with: the errors of ErrorUtils, HTTP errors of a server
\* failure, of a rate limit (4xx) and of an unfollowed redirect (3xx), and
\* a plain Error
ThrownErrors ==
    { APIError(0, "NETWORK_ERROR"), APIError(408, "TIMEOUT"),
      APIError(400, "VALIDATION_ERROR"), APIError(401, "AUTH_ERROR"),
      APIError(403, "AUTHZ_ERROR"), APIError(503, "HTTP_ERROR"),
      APIError(302, "HTTP_ERROR"), PlainError }

\* new RetryHandler(maxRetries) and the entry of retry(fn, onRetry)
RetryInit ==
    /\ pc = "attempt"
    /\ retry \in [maxRetries : 0..MaxRetries, onRetry : BOOLEAN, attempt : {0},
                  lastError : {Undefined}, outcome : {Undefined}]
    /\ retryLog = <<>>
    /\ TypesIdle /\ OthersIdle
    /\ RerunIdle /\ CaseIdle /\ BuilderIdle /\ InstanceIdle /\ SearchIdle
    /\ AuthIdle /\ GenIdle

\* the loop test and the call of fn, whose promise is awaited
CallFn ==
    /\ pc = "attempt"
    /\ retry.attempt <= retry.maxRetries
    /\ retryLog' = Append(retryLog, [call |-> "fn", error |-> Undefined, attempt |-> 0])
    /\ pc' = "pending"
    /\ UNCHANGED <<retry, clientVars, httpVars, parserVars, typeVars,
                   rerunVars, caseVars, builderVars, instanceVars, searchVars,
                   authVars, genVars>>

\* the promise of fn resolves: retry returns its value
FnResolves ==
    /\ pc = "pending"
    /\ retry' = [retry EXCEPT !.outcome =
                    [returned |-> TRUE, value |-> Len(retryLog), error |-> Undefined]]
    /\ pc' = "returned"
    /\ UNCHANGED <<retryLog, clientVars, httpVars, parserVars, typeVars,
                   rerunVars, caseVars, builderVars, instanceVars, searchVars,
                   authVars, genVars>>

\* the promise of fn rejects: the catch block, which leaves the loop and
\* throws lastError, or calls onRetry and waits
FnRejects ==
    /\ pc = "pending"
    /\ \E error \in ThrownErrors :
          LET lastError == toAPIError(error)
          IN  IF retry.attempt = retry.maxRetries \/ ~isRetryable(lastError)
              THEN /\ retry' = [retry EXCEPT !.lastError = lastError,
                                   !.outcome = [returned |-> FALSE, value |-> 0,
                                                error |-> lastError]]
                   /\ retryLog' = retryLog
                   /\ pc' = "thrown"
              ELSE /\ retry' = [retry EXCEPT !.lastError = lastError]
                   /\ retryLog' = IF retry.onRetry
                                  THEN Append(retryLog,
                                              [call |-> "onRetry", error |-> lastError,
                                               attempt |-> retry.attempt + 1])
                                  ELSE retryLog
                   /\ pc' = "delay"
    /\ UNCHANGED <<clientVars, httpVars, parserVars, typeVars,
                   rerunVars, caseVars, builderVars, instanceVars, searchVars,
                   authVars, genVars>>

\* the timer of delay() fires: attempt++
DelayElapsed ==
    /\ pc = "delay"
    /\ retry' = [retry EXCEPT !.attempt = @ + 1]
    /\ pc' = "attempt"
    /\ UNCHANGED <<retryLog, clientVars, httpVars, parserVars, typeVars,
                   rerunVars, caseVars, builderVars, instanceVars, searchVars,
                   authVars, genVars>>

RetryNext == CallFn \/ FnResolves \/ FnRejects \/ DelayElapsed

\* a pending promise settles and a started timer fires
SpecRetry == RetryInit /\ [][RetryNext]_vars /\ WF_vars(RetryNext)

\* the positions of the log that hold calls of the given kind
CallsAt(kind) == {k \in 1..Len(retryLog) : retryLog[k].call = kind}

\* fn was invoked at most maxRetries + 1 times, and with an onRetry callback
\* every invocation after the first directly follows an onRetry call, the
\* calls being numbered 1, 2, ... and following a call of fn
RetryCallsInOrder ==
    /\ Cardinality(CallsAt("fn")) <= retry.maxRetries + 1
    /\ retry.onRetry =>
          /\ \A k \in CallsAt("fn") : k > 1 => retryLog[k - 1].call = "onRetry"
          /\ \A k \in CallsAt("onRetry") :
                /\ k > 1 /\ retryLog[k - 1].call = "fn"
                /\ retryLog[k].attempt = Cardinality({j \in CallsAt("onRetry") : j <= k})
    /\ ~retry.onRetry => CallsAt("onRetry") = {}

\* retry returned the value of the last invocation, the first that succeeded
RetryReturned ==
    pc = "returned" =>
        /\ retry.outcome.returned
        /\ retry.outcome.value = Len(retryLog)
        /\ retryLog[Len(retryLog)].call = "fn"

\* an error of the kinds the claim names: a 4xx error other than a timeout,
\* an authentication or an authorization error
NamedNotRetryable(e) ==
    \/ isClientError(e) /\ ~isTimeoutError(e)
    \/ isAuthError(e) \/ isAuthzError(e)

RetrySafety ==
    pc \in {"attempt", "pending", "delay", "returned", "thrown"} =>
        /\ RetryCallsInOrder
        /\ RetryReturned
        /\ pc = "thrown" =>
              /\ retry.outcome.error = retry.lastError /\ retry.lastError.api
              /\ \/ Cardinality(CallsAt("fn")) = retry.maxRetries + 1
                 \/ NamedNotRetryable(retry.lastError)
                 \/ ~(\/ isServerError(retry.lastError)
                      \/ isNetworkError(retry.lastError)
                      \/ isTimeoutError(retry.lastError))
        /\ pc = "delay" =>
              /\ Cardinality(CallsAt("fn")) <= retry.maxRetries
              /\ ~NamedNotRetryable(retry.lastError)

DeclaredProperties(options, message) ==
    LET properties == generateMessageInterface(options, message).properties
    IN {properties[i].name : i \in 1..Len(properties)}

\* the properties the setters of a builder class assign on this.filter
AssignedProperties(class) == {class.methods[i].assigns : i \in 1..Len(class.methods)}

\* C30: every property that a setter of the builder emitted for a Filter
\* message assigns on the filter object is a property declared by the
\* interface emitted for that message.
C30_SettersAssignDeclaredProperties ==
    pc \in {"sortBuilders", "filterHelpers", "sortHelpers", "helpersEmitted"} =>
        \A k \in 1..Len(messages) :
            includes(messages[k].name, "Filter") =>
                \A i \in BuildersOf("filter", messages[k].name) :
                    AssignedProperties(builders[i])
                        \subseteq DeclaredProperties(typeOptions, FirstNamed(messages[k].name))

=============================================================================
